---- MODULE Spec2Model ----
(***************************************************************************)
(* Streaming tool-call orchestration of mcp-framework-v2.                  *)
(*                                                                         *)
(* The module models ChatHandlerPlugin._handle_interactive_chat            *)
(* (src/src/plugins/chat_handler.py) as the asynchronous generator it is:  *)
(* every action runs the generator from one suspension point (a yield to   *)
(* the caller, or an await on the model or the tool collaborator) to the   *)
(* next one.  The model collaborator is LLMClientPlugin.chat_completion    *)
(* (src/src/plugins/llm_client.py), the tool collaborator is               *)
(* MCPManagerPlugin.execute_tool (src/src/plugins/mcp_manager.py).         *)
(***************************************************************************)
EXTENDS Integers, Sequences, FiniteSets, TLC

(***************************************************************************)
(* Bounds of the model.                                                    *)
(***************************************************************************)
\* fragments the transport delivers over one orchestration call
MaxPulls == 5

\* tasks made of _periodic_cleanup in one life of the plugin
MaxTasks == 3

\* the longest list of messages a caller builds by appending to the list it
\* was given
MaxShared == 2

\* the most messages a conversation holds
MaxConv == 2

\* the most tool calls of one ExecuteToolCallsCommand
MaxCalls == 2

\* the clock of the session store stops here
MaxTime == 2

\* messages and metadata entries held by the session store, all sessions
\* together
MaxHeld == 1

\* largest configured number of active sessions
MaxCapacity == 2

\* self.timeout as configured, in ticks of the clock
timeout == 1

\* chunks delivered by the model when the argument buffers are varied
MaxArgPulls == 4

\* chunks merged into one round state when the merge is taken alone
MaxFed == 3

\* largest index of a tool-call delta when the merge is taken alone
MaxIndex == 1

(***************************************************************************)
(* Program constants.                                                      *)
(***************************************************************************)
max_rounds == 5

\* Python's None, for string-valued fields
None == "<None>"

(***************************************************************************)
(* Python values: strings are TLA+ strings, except the strings the code    *)
(* inspects character by character (the argument buffer of a tool call,    *)
(* parsed by json.loads, and a function name, split at its first "_"),     *)
(* which are sequences of one-character strings; <<>> is both "" and None. *)
(***************************************************************************)
Truthy(s) == s # None /\ s # ""

Last(s) == s[Len(s)]

(***************************************************************************)
(* json.loads on a character sequence, for the JSON subset over the        *)
(* characters { } [ ] " : , 1 a and the literal null.                      *)
(***************************************************************************)
IsWs(c) == c = " "

RECURSIVE SkipWs(_, _)
SkipWs(s, i) == IF i <= Len(s) /\ IsWs(s[i]) THEN SkipWs(s, i + 1) ELSE i

RECURSIVE ScanString(_, _)
\* i is just after the opening quote; the position after the closing quote, 0 if unterminated
ScanString(s, i) ==
    IF i > Len(s) THEN 0
    ELSE IF s[i] = "\"" THEN i + 1
    ELSE ScanString(s, i + 1)

RECURSIVE ScanDigits(_, _)
ScanDigits(s, i) == IF i <= Len(s) /\ s[i] = "1" THEN ScanDigits(s, i + 1) ELSE i

Fail == [ok |-> FALSE, next |-> 0, type |-> "error"]

RECURSIVE ParseValue(_, _)
RECURSIVE ParseMembers(_, _)
RECURSIVE ParseElements(_, _)

\* after the "{" and at least one member is expected at i
ParseMembers(s, i) ==
    LET k == SkipWs(s, i) IN
    IF k > Len(s) \/ s[k] # "\"" THEN Fail
    ELSE LET e == ScanString(s, k + 1) IN
         IF e = 0 THEN Fail
         ELSE LET c == SkipWs(s, e) IN
              IF c > Len(s) \/ s[c] # ":" THEN Fail
              ELSE LET v == ParseValue(s, c + 1) IN
                   IF ~v.ok THEN Fail
                   ELSE LET d == SkipWs(s, v.next) IN
                        IF d > Len(s) THEN Fail
                        ELSE IF s[d] = "}" THEN [ok |-> TRUE, next |-> d + 1, type |-> "dict"]
                        ELSE IF s[d] = "," THEN ParseMembers(s, d + 1)
                        ELSE Fail

ParseElements(s, i) ==
    LET v == ParseValue(s, i) IN
    IF ~v.ok THEN Fail
    ELSE LET d == SkipWs(s, v.next) IN
         IF d > Len(s) THEN Fail
         ELSE IF s[d] = "]" THEN [ok |-> TRUE, next |-> d + 1, type |-> "list"]
         ELSE IF s[d] = "," THEN ParseElements(s, d + 1)
         ELSE Fail

ParseValue(s, i) ==
    LET k == SkipWs(s, i) IN
    IF k > Len(s) THEN Fail
    ELSE IF s[k] = "{" THEN
         LET m == SkipWs(s, k + 1) IN
         IF m <= Len(s) /\ s[m] = "}" THEN [ok |-> TRUE, next |-> m + 1, type |-> "dict"]
         ELSE ParseMembers(s, k + 1)
    ELSE IF s[k] = "[" THEN
         LET m == SkipWs(s, k + 1) IN
         IF m <= Len(s) /\ s[m] = "]" THEN [ok |-> TRUE, next |-> m + 1, type |-> "list"]
         ELSE ParseElements(s, k + 1)
    ELSE IF s[k] = "\"" THEN
         LET e == ScanString(s, k + 1) IN
         IF e = 0 THEN Fail ELSE [ok |-> TRUE, next |-> e, type |-> "str"]
    ELSE IF s[k] = "1" THEN [ok |-> TRUE, next |-> ScanDigits(s, k), type |-> "int"]
    ELSE IF k + 3 <= Len(s) /\ SubSeq(s, k, k + 3) = <<"n", "u", "l", "l">>
         THEN [ok |-> TRUE, next |-> k + 4, type |-> "NoneType"]
    ELSE Fail

\* json.loads(s): ok is FALSE where Python raises json.JSONDecodeError; the
\* value is kept as its type and its text
json_loads(s) ==
    LET v == ParseValue(s, 1) IN
    IF v.ok /\ SkipWs(s, v.next) = Len(s) + 1
    THEN [ok |-> TRUE, type |-> v.type, text |-> SubSeq(s, SkipWs(s, 1), v.next - 1)]
    ELSE [ok |-> FALSE, type |-> "error", text |-> <<>>]

RECURSIVE lstrip(_)
lstrip(s) == IF s # <<>> /\ IsWs(Head(s)) THEN lstrip(Tail(s)) ELSE s

RECURSIVE rstrip(_)
rstrip(s) == IF s # <<>> /\ IsWs(Last(s)) THEN rstrip(SubSeq(s, 1, Len(s) - 1)) ELSE s

\* str.strip()
strip(s) == rstrip(lstrip(s))

EmptyDict == [type |-> "dict", text |-> <<"{", "}">>]

\* no second attempt after the strict parse fails
parse_arguments_strict(buffer) ==
    LET a0 == strip(buffer)
        a1 == IF a0 = <<>> THEN <<"{", "}">> ELSE a0
        p1 == json_loads(a1)
    IN  IF p1.ok THEN [type |-> p1.type, text |-> p1.text] ELSE EmptyDict

\* no try around the second json.loads: its error is the result
parse_arguments_unguarded(buffer) ==
    LET a0 == strip(buffer)
        a1 == IF a0 = <<>> THEN <<"{", "}">> ELSE a0
        p1 == json_loads(a1)
        a2 == IF Head(a1) # "{" THEN <<"{">> \o a1 ELSE a1
        a3 == IF Last(a2) # "}" THEN a2 \o <<"}">> ELSE a2
        p2 == json_loads(a3)
    IN  IF p1.ok THEN [type |-> p1.type, text |-> p1.text]
        ELSE [type |-> p2.type, text |-> p2.text]

\* the argument parsing of _execute_tool_call, for a string buffer
parse_arguments(buffer) ==
    LET a0 == strip(buffer)
        a1 == IF a0 = <<>> THEN <<"{", "}">> ELSE a0
        p1 == json_loads(a1)
        a2 == IF Head(a1) # "{" THEN <<"{">> \o a1 ELSE a1
        a3 == IF Last(a2) # "}" THEN a2 \o <<"}">> ELSE a2
        p2 == json_loads(a3)
    IN  IF p1.ok THEN [type |-> p1.type, text |-> p1.text]
        ELSE IF p2.ok THEN [type |-> p2.type, text |-> p2.text]
        ELSE EmptyDict

(***************************************************************************)
(* Stream fragments (the dicts produced by chunk.model_dump()).            *)
(***************************************************************************)
\* a function part of a tool-call delta: a dict, or None as model_dump()
\* renders a delta that carries no function
Function(name, arguments) == [kind |-> "dict", name |-> name, arguments |-> arguments]
NoFunction == [kind |-> "None", name |-> <<>>, arguments |-> <<>>]

ToolCallDelta(index, id, function) == [index |-> index, id |-> id, function |-> function]

Chunk(content, tool_calls, finish_reason) ==
    [choices |-> <<[delta |-> [content |-> content, tool_calls |-> tool_calls],
                    finish_reason |-> finish_reason]>>]

(***************************************************************************)
(* ChatHandlerPlugin._collect_tool_call                                    *)
(***************************************************************************)
\* the draft appended for an index that does not exist yet; n numbers the
\* uuid4 draws of the call
Placeholder(n) ==
    [id |-> "call_" \o ToString(n), type |-> "function",
     function |-> [name |-> <<>>, arguments |-> <<>>]]

RECURSIVE PadTo_short(_, _, _)
\* while len(tool_calls) < index
PadTo_short(tool_calls, index, n) ==
    IF Len(tool_calls) < index
    THEN PadTo_short(Append(tool_calls, Placeholder(n)), index, n + 1)
    ELSE [tool_calls |-> tool_calls, uuids |-> n]

RECURSIVE PadTo(_, _, _)
\* while len(tool_calls) <= index: tool_calls.append(placeholder)
PadTo(tool_calls, index, n) ==
    IF Len(tool_calls) <= index
    THEN PadTo(Append(tool_calls, Placeholder(n)), index, n + 1)
    ELSE [tool_calls |-> tool_calls, uuids |-> n]

\* the 1-based position list[index] denotes in a Python list of length len;
\* outside 1..len the subscription raises IndexError
PyIndex(len, index) == IF index >= 0 THEN index + 1 ELSE len + index + 1

\* "=" in place of "+=" on the argument buffer
collect_tool_call_replacing(tool_calls, tool_call, n) ==
    LET index  == tool_call.index
        padded == PadTo(tool_calls, index, n)
        tcs    == padded.tool_calls
        p      == PyIndex(Len(tcs), index)
        found  == p \in 1..Len(tcs)
        func   == tool_call.function
        setsId   == Truthy(tool_call.id)
        setsName == func.kind = "dict" /\ func.name # <<>>
        addsArgs == func.kind = "dict" /\ func.arguments # <<>>
        raised == \/ setsId /\ ~found
                  \/ func.kind = "None"
                  \/ (setsName \/ addsArgs) /\ ~found
        old    == tcs[p]
        new    == [id |-> IF setsId THEN tool_call.id ELSE old.id,
                   type |-> old.type,
                   function |->
                     [name |-> IF setsName THEN func.name ELSE old.function.name,
                      arguments |-> IF addsArgs
                                    THEN func.arguments
                                    ELSE old.function.arguments]]
    IN  IF raised
        THEN [raised |-> TRUE, tool_calls |-> tcs, uuids |-> padded.uuids]
        ELSE [raised |-> FALSE,
              tool_calls |-> IF found THEN [tcs EXCEPT ![p] = new] ELSE tcs,
              uuids |-> padded.uuids]

collect_tool_call(tool_calls, tool_call, n) ==
    LET index  == tool_call.index
        padded == PadTo(tool_calls, index, n)
        tcs    == padded.tool_calls
        p      == PyIndex(Len(tcs), index)
        found  == p \in 1..Len(tcs)
        func   == tool_call.function
        setsId   == Truthy(tool_call.id)
        setsName == func.kind = "dict" /\ func.name # <<>>
        addsArgs == func.kind = "dict" /\ func.arguments # <<>>
        raised == \/ setsId /\ ~found                    \* IndexError
                  \/ func.kind = "None"                  \* AttributeError: func.get
                  \/ (setsName \/ addsArgs) /\ ~found    \* IndexError
        old    == tcs[p]
        new    == [id |-> IF setsId THEN tool_call.id ELSE old.id,
                   type |-> old.type,
                   function |->
                     [name |-> IF setsName THEN func.name ELSE old.function.name,
                      arguments |-> IF addsArgs
                                    THEN old.function.arguments \o func.arguments
                                    ELSE old.function.arguments]]
    IN  IF raised
        THEN [raised |-> TRUE, tool_calls |-> tcs, uuids |-> padded.uuids]
        ELSE [raised |-> FALSE,
              tool_calls |-> IF found THEN [tcs EXCEPT ![p] = new] ELSE tcs,
              uuids |-> padded.uuids]

RECURSIVE collect_tool_calls(_, _, _)
\* for tool_call in tool_calls: self._collect_tool_call(state["tool_calls"], tool_call)
collect_tool_calls(tool_calls, deltas, n) ==
    IF deltas = <<>>
    THEN [raised |-> FALSE, tool_calls |-> tool_calls, uuids |-> n]
    ELSE LET r == collect_tool_call(tool_calls, Head(deltas), n) IN
         IF r.raised THEN r ELSE collect_tool_calls(r.tool_calls, Tail(deltas), r.uuids)

(***************************************************************************)
(* ChatHandlerPlugin._process_chunk                                        *)
(***************************************************************************)
EmptyState == [content |-> "", tool_calls |-> <<>>, finish_reason |-> None]

\* the finish reason assigned without the test of line 212
process_chunk_resetting(chunk, state, n) ==
    IF chunk.choices = <<>>
    THEN [raised |-> FALSE, state |-> state, uuids |-> n]
    ELSE LET choice == chunk.choices[1]
             delta  == choice.delta
             r      == collect_tool_calls(state.tool_calls, delta.tool_calls, n)
         IN  [raised |-> r.raised,
              state  |-> [content |-> IF delta.content # None
                                      THEN state.content \o delta.content
                                      ELSE state.content,
                          tool_calls |-> r.tool_calls,
                          finish_reason |-> choice.finish_reason],
              uuids  |-> r.uuids]

process_chunk(chunk, state, n) ==
    IF chunk.choices = <<>>
    THEN [raised |-> FALSE, state |-> state, uuids |-> n]
    ELSE LET choice == chunk.choices[1]
             delta  == choice.delta
             r      == collect_tool_calls(state.tool_calls, delta.tool_calls, n)
         IN  [raised |-> r.raised,
              state  |-> [content |-> IF delta.content # None
                                      THEN state.content \o delta.content
                                      ELSE state.content,
                          tool_calls |-> r.tool_calls,
                          finish_reason |-> IF Truthy(choice.finish_reason)
                                            THEN choice.finish_reason
                                            ELSE state.finish_reason],
              uuids  |-> r.uuids]

(***************************************************************************)
(* MCPManagerPlugin: the tool collaborator                                 *)
(***************************************************************************)
\* self.servers: server id -> names of the tools the server lists
servers == [id \in {<<"s">>} |-> {<<"t">>}]

RECURSIVE find(_, _, _)
\* position of the first c in s at or after i, 0 if there is none
find(s, c, i) == IF i > Len(s) THEN 0 ELSE IF s[i] = c THEN i ELSE find(s, c, i + 1)

\* _parse_tool_name: raised stands for the ValueError
parse_tool_name(tool_name) ==
    LET u == find(tool_name, "_", 1)
        owners == {id \in DOMAIN servers : tool_name \in servers[id]}
    IN  IF u # 0
        THEN [raised |-> FALSE, server_id |-> SubSeq(tool_name, 1, u - 1),
              tool |-> SubSeq(tool_name, u + 1, Len(tool_name))]
        ELSE IF owners # {}
        THEN [raised |-> FALSE, server_id |-> CHOOSE id \in owners : TRUE, tool |-> tool_name]
        ELSE [raised |-> TRUE, server_id |-> <<>>, tool |-> <<>>]

\* execute_tool up to its await on session.call_tool: TRUE when it raises
\* ValueError before reaching the server
execute_tool_raises(tool_name) ==
    LET r == parse_tool_name(tool_name) IN r.raised \/ r.server_id \notin DOMAIN servers

\* what the await on session.call_tool (under asyncio.wait_for) ends with: a
\* non-empty content list, an empty one, or an exception or timeout, which
\* execute_tool turns into the returned value {"error": str(e)}
ToolOutcomes == {"content", "empty", "raise"}

(***************************************************************************)
(* Messages of the request (core/models.py)                                *)
(***************************************************************************)
\* ChatMessage has no tool_call_id field
ChatMessage(role, content, tool_calls) ==
    [role |-> role, content |-> content, tool_calls |-> tool_calls, tool_call_id |-> None]

ToolMessage(tool_call_id, content) ==
    [role |-> "tool", content |-> content, tool_calls |-> <<>>, tool_call_id |-> tool_call_id]

MissingNameError == "{\"error\": \"missing function name\"}"
RaisedError == "{\"error\": \"<str(e)>\"}"
ContinuePrompt == "continue from the tool results"

(***************************************************************************)
(* The fragments the transport delivers in this model.                     *)
(***************************************************************************)
fContent == Chunk("a", <<>>, None)
fCallFin == Chunk(None, <<ToolCallDelta(0, "c1", Function(<<"s", "_", "t">>, <<"{", "}">>))>>,
                  "tool_calls")
fGap     == Chunk(None, <<ToolCallDelta(1, "c2", Function(<<"g", "_", "t">>, <<>>))>>, None)
fToolFin == Chunk(None, <<>>, "tool_calls")
fStop    == Chunk("b", <<>>, "stop")
fNoFunc  == Chunk(None, <<ToolCallDelta(0, "c3", NoFunction)>>, None)

ModelFragments == {fContent, fCallFin, fGap, fToolFin, fStop, fNoFunc}

\* the chunk LLMClientPlugin.chat_completion yields from its except clause
ErrorChunk == Chunk("error: <str(e)>", <<>>, "error")

\* a chunk the loop itself yields
Notice(text) == [src |-> "loop", chunk |-> Chunk(text, <<>>, None)]
Passed(chunk) == [src |-> "model", chunk |-> chunk]

(***************************************************************************)
(* State of one call of _handle_interactive_chat.                          *)
(***************************************************************************)
VARIABLES
    pc,             \* where the generator is suspended
    round_num,      \* the loop variable
    state,          \* the round state
    messages,       \* current_request.messages
    stream,         \* the stream of the round: "none", "open", "failed", "closed"
    tool_index,     \* position in state.tool_calls of the draft being executed
    uuids,          \* uuid4 draws so far
    exit,           \* how the generator ended: "none", "break", "exhausted", "raised"
    abandoned,      \* the caller has stopped consuming the generator
    streamsOpened,  \* history: calls of llm_client.chat_completion
    pulled,         \* history: chunks received from llm_client.chat_completion
    emitted,        \* history: chunks yielded to the caller
    toolLog         \* history: the calls of _execute_tool_call

vars == <<pc, round_num, state, messages, stream, tool_index, uuids, exit, abandoned,
          streamsOpened, pulled, emitted, toolLog>>

(***************************************************************************)
(* State of the merge of a stream into a round state, taken alone          *)
(* (_process_chunk applied to one chunk after the other).                  *)
(***************************************************************************)
VARIABLES
    fed,            \* the chunks merged so far
    acc             \* what the last call of _process_chunk left: the round state,
                    \* the uuid4 draws, and whether it raised

mergeVars == <<fed, acc>>

(***************************************************************************)
(* State of SessionManagerPlugin.                                          *)
(***************************************************************************)
VARIABLES
    sessions,       \* self.sessions, in the order of the dict
    now,            \* datetime.now()
    last,           \* history: the last call of the plugin and what it returned
    max_active,     \* self.max_active as configured
    tasks,          \* the tasks made of _periodic_cleanup, the last one being
                    \* self.cleanup_task
    shutdown_pc,    \* where the call of shutdown() is
    inflight,       \* the callers inside create_session
    handed          \* the list a caller got from get_session_messages

\* what no registry operation changes
storeFrame == <<max_active, tasks, shutdown_pc, inflight>>

storeVars == <<sessions, now, last, storeFrame, handed>>

(***************************************************************************)
(* State of the application layer: one Conversation and one call of        *)
(* ConversationCommandHandler.handle_execute_tool_calls on it.             *)
(***************************************************************************)
VARIABLES
    conversation,   \* Conversation._messages and Conversation._tool_calls
    handler,        \* where handle_execute_tool_calls is, and its command
    added           \* history: the last call of add_message and how it ended

appVars == <<conversation, handler, added>>

\* the ids of tool calls; "" stands for an entry of tool_calls without 'id'
ToolIds == {"t1", "t2"}

\* no entry of the id in Conversation._tool_calls
NoRecord == [id |-> None, status |-> "absent", error |-> None]

\* Conversation(session_id): no message and no tool call
NewConversation == [messages |-> <<>>, tool_calls |-> [id \in ToolIds |-> NoRecord]]

\* no call of handle_execute_tool_calls is under way
Idle == [pc |-> "idle", calls |-> <<>>, index |-> 0, raised_at |-> 0]

\* Message(id, role, content, tool_calls, tool_call_id, name): tool_calls is
\* <<>> for None and <<list>> for a list of the ids of its entries
Message(role, tool_calls, tool_call_id) ==
    [role |-> role, tool_calls |-> tool_calls, tool_call_id |-> tool_call_id]

NoAdd == [op |-> "none", message |-> Message("user", <<>>, None), raised |-> FALSE]

\* the callers of the registry that are followed through create_session
Callers == {"p", "q"}

\* a caller outside create_session
Outside == [pc |-> "outside", id |-> None, got |-> None]

\* no list has been returned
NoList == [kind |-> "none", id |-> None, items |-> <<>>]

\* no call of the plugin yet, or time has passed since the last one
NoCall == [op |-> "none", id |-> None, result |-> None]

InitialMessages == <<ChatMessage("user", "question", <<>>)>>

InitWith(capacity) ==
    /\ pc = "start"
    /\ round_num = 0
    /\ state = EmptyState
    /\ messages = InitialMessages
    /\ stream = "none"
    /\ tool_index = 0
    /\ uuids = 0
    /\ exit = "none"
    /\ abandoned = FALSE
    /\ streamsOpened = 0
    /\ pulled = <<>>
    /\ emitted = <<>>
    /\ toolLog = <<>>
    /\ fed = <<>>
    /\ acc = [raised |-> FALSE, state |-> EmptyState, uuids |-> 0]
    /\ sessions = <<>>
    /\ now = 0
    /\ last = NoCall
    /\ max_active = capacity
    /\ tasks = <<>>
    /\ shutdown_pc = "idle"
    /\ inflight = [caller \in Callers |-> Outside]
    /\ handed = NoList
    /\ conversation = NewConversation
    /\ handler = Idle
    /\ added = NoAdd

Init == InitWith(MaxCapacity)

\* a producer that does not wait for its consumer
Running_detached == TRUE

\* an asynchronous generator runs only while its consumer awaits its next
\* item: once the caller has stopped consuming, no suspension point resumes
Running == ~abandoned

\* range(max_rounds + 1)
BeginRound_oneMore(r) ==
    IF r <= max_rounds
    THEN /\ round_num' = r
         /\ state' = EmptyState
         /\ stream' = "open"
         /\ streamsOpened' = streamsOpened + 1
         /\ pc' = "await_model"
         /\ exit' = exit
    ELSE /\ pc' = "done"
         /\ exit' = "exhausted"
         /\ UNCHANGED <<round_num, state, stream, streamsOpened>>

\* the round state made once, before the loop
BeginRound_keeping(r) ==
    IF r < max_rounds
    THEN /\ round_num' = r
         /\ state' = state
         /\ stream' = "open"
         /\ streamsOpened' = streamsOpened + 1
         /\ pc' = "await_model"
         /\ exit' = exit
    ELSE /\ pc' = "done"
         /\ exit' = "exhausted"
         /\ UNCHANGED <<round_num, state, stream, streamsOpened>>

\* for round_num in range(max_rounds): the head of the loop, with the reset
\* of the round state and the call of llm_client.chat_completion
BeginRound(r) ==
    IF r < max_rounds
    THEN /\ round_num' = r
         /\ state' = EmptyState
         /\ stream' = "open"
         /\ streamsOpened' = streamsOpened + 1
         /\ pc' = "await_model"
         /\ exit' = exit
    ELSE /\ pc' = "done"
         /\ exit' = "exhausted"
         /\ UNCHANGED <<round_num, state, stream, streamsOpened>>

\* "and" in place of "or"
RoundIsOver_and(st) == st.finish_reason # "tool_calls" /\ st.tool_calls = <<>>

\* if state["finish_reason"] != "tool_calls" or not state["tool_calls"]: break
RoundIsOver(st) == st.finish_reason # "tool_calls" \/ st.tool_calls = <<>>

\* the code after the async for, up to the next yield; em is the caller's
\* view of the chunks so far
Decide(st, em) ==
    IF RoundIsOver(st)
    THEN /\ pc' = "done"
         /\ exit' = "break"
         /\ emitted' = em
    ELSE /\ pc' = "yield_notify"
         /\ exit' = exit
         /\ emitted' = Append(em, Notice("[executing tools]"))

\* the first call of the generator
Start ==
    /\ pc = "start"
    /\ Running
    /\ BeginRound(0)
    /\ UNCHANGED <<messages, tool_index, uuids, abandoned, pulled, emitted, toolLog>>
    /\ UNCHANGED <<mergeVars, storeVars, appVars>>

\* the body of the async for on one chunk: merge it, then yield it
Receive(chunk) ==
    LET r == process_chunk(chunk, state, uuids) IN
    /\ pulled' = Append(pulled, chunk)
    /\ IF r.raised
       THEN /\ pc' = "done"
            /\ exit' = "raised"
            /\ UNCHANGED <<state, uuids, emitted>>
       ELSE /\ pc' = "yield_chunk"
            /\ exit' = exit
            /\ state' = r.state
            /\ uuids' = r.uuids
            /\ emitted' = Append(emitted, Passed(chunk))

\* the transport delivers a chunk
ModelFragment ==
    /\ pc = "await_model"
    /\ Running
    /\ stream = "open"
    /\ Len(pulled) < MaxPulls
    /\ \E chunk \in ModelFragments : Receive(chunk)
    /\ UNCHANGED <<round_num, messages, stream, tool_index, abandoned, streamsOpened, toolLog>>
    /\ UNCHANGED <<mergeVars, storeVars, appVars>>

\* the transport raises: chat_completion yields its error chunk
TransportError ==
    /\ pc = "await_model"
    /\ Running
    /\ stream = "open"
    /\ Receive(ErrorChunk)
    /\ stream' = "failed"
    /\ UNCHANGED <<round_num, messages, tool_index, abandoned, streamsOpened, toolLog>>
    /\ UNCHANGED <<mergeVars, storeVars, appVars>>

\* chat_completion returns: the async for is over
StreamEnd ==
    /\ pc = "await_model"
    /\ Running
    /\ stream \in {"open", "failed"}
    /\ stream' = "closed"
    /\ Decide(state, emitted)
    /\ UNCHANGED <<round_num, state, messages, tool_index, uuids, abandoned,
                   streamsOpened, pulled, toolLog>>
    /\ UNCHANGED <<mergeVars, storeVars, appVars>>

\* the loop over the stream without its break
BreakOnToolCalls_never(st) == FALSE

\* if state["finish_reason"] == "tool_calls": break
BreakOnToolCalls(st) == st.finish_reason = "tool_calls"

\* the caller asks for the chunk after a model chunk
ResumeChunk ==
    /\ pc = "yield_chunk"
    /\ Running
    /\ IF BreakOnToolCalls(state)
       THEN Decide(state, emitted)
       ELSE /\ pc' = "await_model"
            /\ UNCHANGED <<exit, emitted>>
    /\ UNCHANGED <<round_num, state, messages, stream, tool_index, uuids, abandoned,
                   streamsOpened, pulled, toolLog>>
    /\ UNCHANGED <<mergeVars, storeVars, appVars>>

\* the caller asks for the chunk after "[executing tools]"
ResumeNotify ==
    /\ pc = "yield_notify"
    /\ Running
    /\ emitted' = Append(emitted, Notice("tool_calls_info"))
    /\ pc' = "yield_info"
    /\ UNCHANGED <<round_num, state, messages, stream, tool_index, uuids, exit, abandoned,
                   streamsOpened, pulled, toolLog>>
    /\ UNCHANGED <<mergeVars, storeVars, appVars>>

\* a loop over the drafts that leaves the last one out
NextTool_skipLast(i, em) ==
    IF i < Len(state.tool_calls)
    THEN /\ tool_index' = i
         /\ emitted' = Append(em, Notice("executing"))
         /\ pc' = "yield_exec"
    ELSE /\ tool_index' = tool_index
         /\ emitted' = Append(em, Notice("[tools done]"))
         /\ pc' = "yield_complete"

\* the head of "for tool_call in state["tool_calls"]" for the draft at i,
\* up to the yield of its "executing" chunk; after the last draft the yield
\* of the "tools done" chunk
NextTool(i, em) ==
    IF i <= Len(state.tool_calls)
    THEN /\ tool_index' = i
         /\ emitted' = Append(em, Notice("executing"))
         /\ pc' = "yield_exec"
    ELSE /\ tool_index' = tool_index
         /\ emitted' = Append(em, Notice("[tools done]"))
         /\ pc' = "yield_complete"

\* the caller asks for the chunk after the tool call display: the assistant
\* message is appended and the loop over the drafts starts
ResumeInfo ==
    /\ pc = "yield_info"
    /\ Running
    /\ messages' = Append(messages, ChatMessage("assistant", state.content, state.tool_calls))
    /\ NextTool(1, emitted)
    /\ UNCHANGED <<round_num, state, stream, uuids, exit, abandoned,
                   streamsOpened, pulled, toolLog>>
    /\ UNCHANGED <<mergeVars, storeVars, appVars>>

RECURSIVE LastWithRole(_, _)
\* position of the last message with the role, 0 if there is none
LastWithRole(msgs, role) ==
    IF msgs = <<>> THEN 0
    ELSE IF Last(msgs).role = role THEN Len(msgs)
    ELSE LastWithRole(SubSeq(msgs, 1, Len(msgs) - 1), role)

\* the record of one call of _execute_tool_call: the draft, where the
\* assistant message of its round is, how many messages followed it when the
\* call began, whether mcp_manager.execute_tool was called and with what
LogEntry(tool_call, invoked, arguments, outcome) ==
    [round |-> round_num, index |-> tool_index, id |-> tool_call.id,
     name |-> tool_call.function.name,
     asst |-> LastWithRole(messages, "assistant"),
     answered |-> Len(messages) - LastWithRole(messages, "assistant"),
     invoked |-> invoked, arguments |-> arguments, outcome |-> outcome]

\* no check of the function name
HasName_unchecked(function_name) == TRUE

\* if not function_name: ... return error_result
HasName(function_name) == function_name # <<>>

\* _execute_tool_call returned a truthy result: its display is yielded
ShowResult(text) ==
    /\ emitted' = Append(emitted, Notice(text))
    /\ pc' = "yield_result"
    /\ UNCHANGED <<tool_index, exit>>

\* no except clause: the exception leaves the generator
ToolFailed_propagates ==
    /\ pc' = "done"
    /\ exit' = "raised"
    /\ UNCHANGED <<messages, emitted, tool_index>>

\* the error is returned as the result and not answered to the model
ToolFailed_silent ==
    /\ UNCHANGED messages
    /\ ShowResult("failed")

\* the except clause of _execute_tool_call: the error is answered to the
\* model and returned as the result
ToolFailed ==
    /\ messages' = Append(messages, ChatMessage("tool", RaisedError, <<>>))
    /\ ShowResult("failed")

\* the caller asks for the chunk after "executing": _execute_tool_call runs
\* up to its await on the tool server, or to its end when it does not get there
ResumeExec ==
    /\ pc = "yield_exec"
    /\ Running
    /\ LET tool_call     == state.tool_calls[tool_index]
           function_name == tool_call.function.name
           arguments     == parse_arguments(tool_call.function.arguments)
       IN  IF ~HasName(function_name)
           THEN /\ toolLog' = Append(toolLog, LogEntry(tool_call, FALSE, EmptyDict, "missing_name"))
                /\ messages' = Append(messages, ChatMessage("tool", MissingNameError, <<>>))
                /\ ShowResult("failed")
           ELSE IF execute_tool_raises(function_name)
           THEN /\ toolLog' = Append(toolLog, LogEntry(tool_call, TRUE, arguments, "ValueError"))
                /\ ToolFailed
           ELSE /\ toolLog' = Append(toolLog, LogEntry(tool_call, TRUE, arguments, "pending"))
                /\ pc' = "await_tool"
                /\ UNCHANGED <<messages, emitted, tool_index, exit>>
    /\ UNCHANGED <<round_num, state, stream, uuids, abandoned, streamsOpened, pulled>>
    /\ UNCHANGED <<mergeVars, storeVars, appVars>>

\* the content of the ToolMessage for what execute_tool returned
ResultContent(outcome) ==
    CASE outcome = "content" -> "[\"result\"]"
      [] outcome = "empty"   -> "[]"
      [] outcome = "raise"   -> RaisedError

\* the await on the tool server ends: execute_tool returns, the result is
\* answered to the model and, unless it is falsy, displayed
ToolReturn ==
    /\ pc = "await_tool"
    /\ Running
    /\ \E outcome \in ToolOutcomes :
         /\ toolLog' = [toolLog EXCEPT ![Len(toolLog)].outcome = outcome]
         /\ messages' = Append(messages, ToolMessage(state.tool_calls[tool_index].id,
                                                     ResultContent(outcome)))
         /\ IF outcome = "empty"
            THEN /\ NextTool(tool_index + 1, emitted)
                 /\ exit' = exit
            ELSE ShowResult(IF outcome = "raise" THEN "failed" ELSE "succeeded")
    /\ UNCHANGED <<round_num, state, stream, uuids, abandoned, streamsOpened, pulled>>
    /\ UNCHANGED <<mergeVars, storeVars, appVars>>

\* the caller asks for the chunk after a result display
ResumeResult ==
    /\ pc = "yield_result"
    /\ Running
    /\ NextTool(tool_index + 1, emitted)
    /\ UNCHANGED <<round_num, state, messages, stream, uuids, exit, abandoned,
                   streamsOpened, pulled, toolLog>>
    /\ UNCHANGED <<mergeVars, storeVars, appVars>>

\* the continuation prompt left out when no round follows
Continued_unlessLast(msgs, r) ==
    IF r + 1 < max_rounds
    THEN Append(msgs, ChatMessage("user", ContinuePrompt, <<>>))
    ELSE msgs

\* current_request.messages.append(ChatMessage(role="user", ...)): the last
\* statement of the body of the loop, under no condition on round_num
Continued(msgs, r) == Append(msgs, ChatMessage("user", ContinuePrompt, <<>>))

\* the caller asks for the chunk after "[tools done]": the continuation
\* prompt is appended and the next round begins
ResumeComplete ==
    /\ pc = "yield_complete"
    /\ Running
    /\ messages' = Continued(messages, round_num)
    /\ BeginRound(round_num + 1)
    /\ UNCHANGED <<tool_index, uuids, abandoned, pulled, emitted, toolLog>>
    /\ UNCHANGED <<mergeVars, storeVars, appVars>>

\* the caller stops consuming the generator
Abandon ==
    /\ pc \notin {"start", "done"}
    /\ ~abandoned
    /\ abandoned' = TRUE
    /\ UNCHANGED <<pc, round_num, state, messages, stream, tool_index, uuids, exit,
                   streamsOpened, pulled, emitted, toolLog>>
    /\ UNCHANGED <<mergeVars, storeVars, appVars>>

Next ==
    \/ Start
    \/ ModelFragment
    \/ TransportError
    \/ StreamEnd
    \/ ResumeChunk
    \/ ResumeNotify
    \/ ResumeInfo
    \/ ResumeExec
    \/ ToolReturn
    \/ ResumeResult
    \/ ResumeComplete
    \/ Abandon

Spec == Init /\ [][Next]_vars

(***************************************************************************)
(* The loop with the argument buffers varied: the model streams the        *)
(* arguments of one tool call piece by piece, the transport does not fail  *)
(* and the caller consumes the generator to its end.                       *)
(***************************************************************************)
ArgPieces == {<<"{">>, <<"}">>, <<"\"", "a", "\"">>, <<"a", "\"">>, <<":", "1">>,
              <<"1">>, <<"[", "1", "]">>, <<"n", "u", "l", "l">>, <<" ">>}

ArgFragments ==
    {Chunk(None, <<ToolCallDelta(0, "c1", Function(<<"s", "_", "t">>, piece))>>, None) :
        piece \in ArgPieces}
    \cup {fToolFin}

\* the transport delivers a piece of the arguments, or the finish reason
ArgFragment ==
    /\ pc = "await_model"
    /\ Running
    /\ stream = "open"
    /\ Len(pulled) < MaxArgPulls
    /\ \E chunk \in ArgFragments : Receive(chunk)
    /\ UNCHANGED <<round_num, messages, stream, tool_index, abandoned, streamsOpened, toolLog>>
    /\ UNCHANGED <<mergeVars, storeVars, appVars>>

NextArgs ==
    \/ Start
    \/ ArgFragment
    \/ StreamEnd
    \/ ResumeChunk
    \/ ResumeNotify
    \/ ResumeInfo
    \/ ResumeExec
    \/ ToolReturn
    \/ ResumeResult
    \/ ResumeComplete

SpecArgs == Init /\ [][NextArgs]_vars

(***************************************************************************)
(* The merge taken alone: _process_chunk applied to any sequence of chunks *)
(* of a bounded set, each with one tool-call delta of a non-negative index *)
(* or with a finish reason.                                                *)
(***************************************************************************)
MergeIds   == {"c1", "c2"}
MergeNames == {<<"s", "_", "t">>, <<"g", "_", "t">>}
MergeArgs  == {<<"{">>, <<"}">>}

\* the deltas for one index: each supplies an id, a name, an argument
\* chunk, or nothing (an empty or an absent id)
DeltasAt(i) ==
    {ToolCallDelta(i, id, Function(<<>>, <<>>)) : id \in MergeIds \cup {"", None}}
    \cup {ToolCallDelta(i, None, Function(name, <<>>)) : name \in MergeNames}
    \cup {ToolCallDelta(i, None, Function(<<>>, args)) : args \in MergeArgs}

DeltaChunks == {Chunk(None, <<d>>, None) : d \in UNION {DeltasAt(i) : i \in 0..MaxIndex}}

FinishChunks == {Chunk("a", <<>>, fr) : fr \in {None, "stop", "tool_calls"}}

Merge(chunk) ==
    /\ Len(fed) < MaxFed
    /\ ~acc.raised
    /\ fed' = Append(fed, chunk)
    /\ acc' = process_chunk(chunk, acc.state, acc.uuids)
    /\ UNCHANGED <<vars, storeVars, appVars>>

\* a chunk with a tool-call delta is merged
MergeDelta == \E chunk \in DeltaChunks : Merge(chunk)

\* a chunk with content and possibly a finish reason is merged
MergeFinish == \E chunk \in FinishChunks : Merge(chunk)

NextMerge ==
    \/ MergeDelta
    \/ MergeFinish

SpecMerge == Init /\ [][NextMerge]_mergeVars

(***************************************************************************)
(* Properties                                                              *)
(***************************************************************************)
Range(s) == {s[i] : i \in DOMAIN s}

FinishReason(chunk) == IF chunk.choices = <<>> THEN None ELSE chunk.choices[1].finish_reason

\* the round ended with finish_reason "tool_calls" and at least one draft
ToolCallTerminal(st) == st.finish_reason = "tool_calls" /\ st.tool_calls # <<>>

NoErrorFragment == \A e \in Range(emitted) : FinishReason(e.chunk) # "error"

\* the entries of the log that belong to round r
EntriesOf(r) == {k \in DOMAIN toolLog : toolLog[k].round = r}

\* the message that answers the draft of a log entry
AnswerAt(e) == e.asst + e.index

\* C1: when every round ends with finish_reason "tool_calls" and a draft,
\* the loop opens exactly max_rounds streams, never one more, and ends
\* without raising and without an error fragment
C1_RoundBound ==
    /\ streamsOpened <= max_rounds
    /\ (pc = "done" /\ ToolCallTerminal(state))
          => /\ streamsOpened = max_rounds
             /\ exit = "exhausted"
             /\ NoErrorFragment

C1_Witness ==
    /\ pc = "done"
    /\ exit = "exhausted"
    /\ streamsOpened = max_rounds
    /\ Len(toolLog) = max_rounds
    /\ \A k \in DOMAIN toolLog : toolLog[k].name = <<"s", "_", "t">>

\* C2: every tool message carries a tool_call_id, the id of a tool call of
\* the assistant message of its round
C2_ToolMessageLinkage ==
    \A i \in DOMAIN messages :
        messages[i].role = "tool" =>
            LET a == LastWithRole(SubSeq(messages, 1, i), "assistant") IN
            /\ a > 0
            /\ messages[i].tool_call_id # None
            /\ \E k \in DOMAIN messages[a].tool_calls :
                   messages[a].tool_calls[k].id = messages[i].tool_call_id

\* C3: a round that does not end with finish_reason "tool_calls" and a
\* draft ends the loop: no tool is executed, no message is appended, no
\* stream is opened, then or later
C3_ToolsOnlyAfterToolCallRound ==
    [][ /\ ( /\ pc \in {"await_model", "yield_chunk"}
             /\ pc' \notin {"await_model", "yield_chunk"}
             /\ ~ToolCallTerminal(state') )
           => /\ pc' = "done"
              /\ UNCHANGED <<messages, toolLog, streamsOpened>>
        /\ pc = "done" => UNCHANGED <<pc, messages, toolLog, streamsOpened, pulled>>
      ]_vars

C3_Witness ==
    /\ pc = "done"
    /\ exit = "break"
    /\ state.tool_calls # <<>>
    /\ state.finish_reason = None
    /\ EntriesOf(round_num) = {}

\* C4: an exception while a round is streaming never leaves the generator:
\* it ends the call with one last fragment whose finish_reason is "error",
\* and no tool is executed in that round
C4_StreamingErrorIsAFragment ==
    /\ exit # "raised"
    /\ (pc = "done" /\ ErrorChunk \in Range(pulled))
          => /\ exit = "break"
             /\ emitted # <<>>
             /\ Last(emitted) = Passed(ErrorChunk)
             /\ Cardinality({i \in DOMAIN emitted : FinishReason(emitted[i].chunk) = "error"}) = 1
             /\ EntriesOf(round_num) = {}

\* C5: the drafts of a round are executed one at a time in ascending order,
\* each one once the earlier ones are answered, and the continuation prompt
\* follows the answers to all the drafts of the round
C5_SequentialToolExecution ==
    /\ \A k \in DOMAIN toolLog :
          /\ toolLog[k].answered = toolLog[k].index - 1
          /\ toolLog[k].index =
                IF k > 1 /\ toolLog[k - 1].round = toolLog[k].round
                THEN toolLog[k - 1].index + 1 ELSE 1
          /\ k > 1 => toolLog[k - 1].outcome # "pending"
    /\ \A p \in DOMAIN messages :
          (messages[p].role = "user" /\ messages[p].content = ContinuePrompt) =>
              LET a == LastWithRole(SubSeq(messages, 1, p), "assistant") IN
              /\ a > 0
              /\ p - a - 1 = Len(messages[a].tool_calls)
              /\ \A q \in (a + 1)..(p - 1) :
                    /\ messages[q].role = "tool"
                    /\ messages[q].content \in
                          {MissingNameError, RaisedError, ResultContent("content"),
                           ResultContent("empty")}

C5_Witness ==
    /\ Len(toolLog) >= 2
    /\ toolLog[1].round = toolLog[2].round
    /\ messages[Len(messages)].content = ContinuePrompt

Failed(e) == e.outcome \in {"raise", "ValueError"}

\* the tool phase of the round of entry e is over
ToolPhaseOver(e) == e.round < round_num \/ pc \in {"yield_complete", "done"}

\* C6: a failing tool call is answered by a tool message with an error
\* payload, the later drafts of the round are still executed, and the loop
\* never ends in a round whose tools were executed, except by exhaustion
C6_ToolFailureIsIsolated ==
    /\ \A k \in DOMAIN toolLog :
          LET e == toolLog[k] IN
          Failed(e) =>
              /\ AnswerAt(e) <= Len(messages)
              /\ messages[AnswerAt(e)].role = "tool"
              /\ messages[AnswerAt(e)].content = RaisedError
              /\ (ToolPhaseOver(e) /\ e.index < Len(messages[e.asst].tool_calls))
                    => /\ k < Len(toolLog)
                       /\ toolLog[k + 1].round = e.round
                       /\ toolLog[k + 1].index = e.index + 1
    /\ (pc = "done" /\ exit # "exhausted") => EntriesOf(round_num) = {}

C6_Witness ==
    \E k \in DOMAIN toolLog :
        /\ Failed(toolLog[k])
        /\ k < Len(toolLog)
        /\ toolLog[k + 1].round = toolLog[k].round
        /\ toolLog[k + 1].outcome # "pending"
        /\ pc = "yield_complete"

\* C7: for a draft without a function name the tool collaborator is not
\* called, and one tool message with the missing-function-name error
\* answers it
C7_MissingFunctionName ==
    /\ \A k \in DOMAIN toolLog :
          LET e == toolLog[k] IN
          e.name = <<>> =>
              /\ ~e.invoked
              /\ AnswerAt(e) <= Len(messages)
              /\ messages[AnswerAt(e)] = ChatMessage("tool", MissingNameError, <<>>)
    /\ Cardinality({i \in DOMAIN messages : messages[i].content = MissingNameError})
          = Cardinality({k \in DOMAIN toolLog : toolLog[k].name = <<>>})

C7_Witness ==
    \E k \in DOMAIN toolLog :
        /\ toolLog[k].name = <<>>
        /\ toolLog[k].id = "call_0"
        /\ pc = "yield_complete"

\* the chunks of the model among those yielded to the caller
ModelChunks(em) ==
    LET IsPassed(e) == e.src = "model"
        passed == SelectSeq(em, IsPassed)
    IN  [i \in DOMAIN passed |-> passed[i].chunk]

\* C8: the chunks of the model are yielded to the caller once each, in the
\* order received, each one before the next is pulled
C8_PassThrough == ModelChunks(emitted) = pulled

\* C9: after finish_reason "tool_calls" no chunk is pulled from the stream
\* of the round
C9_NoPullAfterToolCalls ==
    [][state.finish_reason = "tool_calls" => pulled' = pulled]_vars

C9_Witness ==
    /\ state.finish_reason = "tool_calls"
    /\ stream = "open"
    /\ pc = "yield_notify"

\* C10: once the caller has stopped consuming, no chunk is pulled from the
\* model, no stream is opened and no tool is executed
C10_AbandonStops ==
    [][abandoned => UNCHANGED <<pulled, toolLog, streamsOpened, messages>>]_vars

C10_Witness ==
    /\ abandoned
    /\ pc = "yield_chunk"
    /\ ToolCallTerminal(state)
    /\ EntriesOf(round_num) = {}

(***************************************************************************)
(* Properties of the merge taken alone                                     *)
(***************************************************************************)
RECURSIVE DeltasOf(_)
\* the tool-call deltas of a sequence of chunks, in arrival order
DeltasOf(chunks) ==
    IF chunks = <<>> THEN <<>>
    ELSE (IF Head(chunks).choices = <<>> THEN <<>>
          ELSE Head(chunks).choices[1].delta.tool_calls) \o DeltasOf(Tail(chunks))

\* the deltas delivered for index i, in arrival order
DeltasFor(i) == LET At(d) == d.index = i IN SelectSeq(DeltasOf(fed), At)

MaxSeen(ds) == CHOOSE m \in {ds[k].index : k \in DOMAIN ds} :
                   \A k \in DOMAIN ds : ds[k].index <= m

RECURSIVE ConcatArgs(_)
ConcatArgs(ds) ==
    IF ds = <<>> THEN <<>> ELSE Head(ds).function.arguments \o ConcatArgs(Tail(ds))

RECURSIVE LastId(_)
\* the last non-empty id of the deltas, None if there is none
LastId(ds) ==
    IF ds = <<>> THEN None
    ELSE IF Truthy(Last(ds).id) THEN Last(ds).id
    ELSE LastId(SubSeq(ds, 1, Len(ds) - 1))

RECURSIVE LastName(_)
\* the last non-empty name of the deltas, <<>> if there is none
LastName(ds) ==
    IF ds = <<>> THEN <<>>
    ELSE IF Last(ds).function.name # <<>> THEN Last(ds).function.name
    ELSE LastName(SubSeq(ds, 1, Len(ds) - 1))

PlaceholderIds == {"call_" \o ToString(n) : n \in 0..(MaxFed * (MaxIndex + 1))}

\* C11: deltas with non-negative indices, in any order, build a draft list
\* with one entry for each position from 0 to the largest index seen; the
\* entry of a position holds what the deltas of that index delivered and
\* nothing of the others, and the placeholder ids are all different
C11_OneDraftPerIndex ==
    LET ds     == DeltasOf(fed)
        drafts == acc.state.tool_calls
    IN  /\ ~acc.raised
        /\ Len(drafts) = IF ds = <<>> THEN 0 ELSE MaxSeen(ds) + 1
        /\ \A p \in DOMAIN drafts :
              LET mine == DeltasFor(p - 1) IN
              /\ drafts[p].type = "function"
              /\ drafts[p].id \in {mine[k].id : k \in DOMAIN mine} \cup PlaceholderIds
              /\ drafts[p].function.name \in {mine[k].function.name : k \in DOMAIN mine} \cup {<<>>}
              /\ Len(drafts[p].function.arguments) = Len(ConcatArgs(mine))
        /\ \A p, q \in DOMAIN drafts :
              (p # q /\ drafts[p].id \in PlaceholderIds) => drafts[p].id # drafts[q].id

\* index 1 arrived before index 0, and index 0 again after it
C11_Witness ==
    /\ Len(fed) = 3
    /\ DeltasOf(fed) # <<>>
    /\ Len(DeltasOf(fed)) = 3
    /\ DeltasOf(fed)[1].index = 1
    /\ DeltasOf(fed)[2].index = 0
    /\ DeltasOf(fed)[3].index = 0
    /\ Len(acc.state.tool_calls) = 2

\* C12: the argument buffer of a draft is the concatenation, in arrival
\* order, of the argument chunks of its index; its id and its name are the
\* last non-empty ones delivered for its index
C12_DraftContents ==
    \A p \in DOMAIN acc.state.tool_calls :
        LET mine  == DeltasFor(p - 1)
            draft == acc.state.tool_calls[p]
        IN  /\ draft.function.arguments = ConcatArgs(mine)
            /\ draft.function.name = LastName(mine)
            /\ IF LastId(mine) = None
               THEN draft.id \in PlaceholderIds
               ELSE draft.id = LastId(mine)

\* two argument chunks for index 0 with a chunk for index 1 between them
C12_Witness ==
    /\ Len(DeltasOf(fed)) = 3
    /\ DeltasOf(fed)[1] = ToolCallDelta(0, None, Function(<<>>, <<"{">>))
    /\ DeltasOf(fed)[2] = ToolCallDelta(1, None, Function(<<>>, <<"{">>))
    /\ DeltasOf(fed)[3] = ToolCallDelta(0, None, Function(<<>>, <<"}">>))
    /\ acc.state.tool_calls[1].function.arguments = <<"{", "}">>

RECURSIVE LastFinishReason(_)
\* the last non-null finish reason of the chunks, None if there is none
LastFinishReason(chunks) ==
    IF chunks = <<>> THEN None
    ELSE IF Truthy(FinishReason(Last(chunks))) THEN FinishReason(Last(chunks))
    ELSE LastFinishReason(SubSeq(chunks, 1, Len(chunks) - 1))

\* C13: the finish reason of the round is the last non-null one of the
\* chunks merged; a chunk with a null finish reason does not reset it
C13_LastFinishReasonWins == acc.state.finish_reason = LastFinishReason(fed)

\* "stop", then "tool_calls", then a chunk with a null finish reason
C13_Witness ==
    /\ Len(fed) = 3
    /\ FinishReason(fed[1]) = "stop"
    /\ FinishReason(fed[2]) = "tool_calls"
    /\ FinishReason(fed[3]) = None
    /\ acc.state.finish_reason = "tool_calls"

(***************************************************************************)
(* Properties of the argument parsing                                      *)
(***************************************************************************)
\* the argument buffer of the draft a log entry is about
BufferOf(e) == messages[e.asst].tool_calls[e.index].function.arguments

TheObject == [type |-> "dict", text |-> <<"{", "\"", "a", "\"", ":", "1", "}">>]

\* {"a":1} without its leading brace
NoLeadingBrace == <<"\"", "a", "\"", ":", "1", "}">>

\* the buffer written a\":1} inside a string literal
SpecExample == <<"a", "\"", ":", "1", "}">>

\* C14: whatever the argument buffer, the arguments passed to the tool
\* server are a mapping
C14_ArgumentsAreAMapping ==
    \A k \in DOMAIN toolLog :
        toolLog[k].invoked => toolLog[k].arguments.type = "dict"

\* C15 as stated: the buffer missing its leading brace, and the example
\* a":1}, are both repaired to {"a": 1}
C15_ExampleIsRepaired ==
    \A k \in DOMAIN toolLog :
        (toolLog[k].invoked /\ BufferOf(toolLog[k]) \in {NoLeadingBrace, SpecExample})
            => toolLog[k].arguments = TheObject

\* C15: the buffer "a":1}, a JSON object missing only its leading brace, is
\* repaired to {"a": 1} by the brace insertion; the buffer a":1}, which also
\* misses the opening quote of its key, is not, and gives the empty mapping
C15_LeadingBraceIsRepaired ==
    \A k \in DOMAIN toolLog :
        toolLog[k].invoked =>
            /\ BufferOf(toolLog[k]) = NoLeadingBrace => toolLog[k].arguments = TheObject
            /\ BufferOf(toolLog[k]) = SpecExample => toolLog[k].arguments = EmptyDict

C15_Witness ==
    /\ \E k \in DOMAIN toolLog :
          /\ BufferOf(toolLog[k]) = NoLeadingBrace
          /\ toolLog[k].invoked
          /\ toolLog[k].outcome = "content"
    /\ pc = "yield_complete"

\* the buffer with a brace put on each side that lacks one
Braced(a) ==
    (IF Head(a) = "{" THEN <<>> ELSE <<"{">>) \o a \o (IF Last(a) = "}" THEN <<>> ELSE <<"}">>)

\* neither the buffer nor the braced buffer is JSON
Irreparable(buffer) ==
    /\ strip(buffer) # <<>>
    /\ ~json_loads(strip(buffer)).ok
    /\ ~json_loads(Braced(strip(buffer))).ok

\* C16: for a buffer that is not JSON, with or without added braces, the
\* tool server is called once for the draft, with the empty mapping; no
\* exception leaves the loop, no error chunk is emitted, and the loop does
\* not end in that round except by exhaustion
C16_IrreparableRunsWithEmptyMapping ==
    \A k \in DOMAIN toolLog :
        LET e == toolLog[k] IN
        (e.name # <<>> /\ Irreparable(BufferOf(e))) =>
            /\ e.invoked
            /\ e.arguments = EmptyDict
            /\ \A j \in DOMAIN toolLog :
                  (toolLog[j].round = e.round /\ toolLog[j].index = e.index) => j = k
            /\ NoErrorFragment
            /\ exit # "raised"
            /\ (e.outcome \in {"content", "empty"} /\ ToolPhaseOver(e))
                  => messages[AnswerAt(e)] = ToolMessage(e.id, ResultContent(e.outcome))
            /\ pc = "done" => (round_num > e.round \/ exit = "exhausted")

\* the buffer a" was executed and the loop went on to the next round
C16_Witness ==
    \E k \in DOMAIN toolLog :
        /\ BufferOf(toolLog[k]) = <<"a", "\"">>
        /\ toolLog[k].invoked
        /\ toolLog[k].outcome = "content"
        /\ round_num > toolLog[k].round

(***************************************************************************)
(* The session store (SessionManagerPlugin).  Its methods are synchronous: *)
(* each call is one step, at one reading of the clock.                     *)
(***************************************************************************)
SessionIds == {"a", "b", "c"}
Messages   == {"m"}
Keys       == {"k"}
Values     == {"v"}

NoMetadata == [key \in Keys |-> None]

\* Session(id=session_id, created_at=now, last_accessed=now); created_at is
\* written here and read nowhere
Session(id, t) ==
    [id |-> id, last_accessed |-> t, messages |-> <<>>, metadata |-> NoMetadata,
     active |-> TRUE]

\* the position of session_id in self.sessions, 0 if it is not a key
Position(ss, session_id) ==
    IF \E i \in DOMAIN ss : ss[i].id = session_id
    THEN CHOOSE i \in DOMAIN ss : ss[i].id = session_id
    ELSE 0

\* ">=" in place of ">"
is_session_expired_inclusive(session, t) ==
    IF ~session.active THEN TRUE ELSE t >= session.last_accessed + timeout

\* the test on the clock left out
is_session_expired_untimed(session, t) == ~session.active

\* _is_session_expired at time t
is_session_expired(session, t) ==
    IF ~session.active THEN TRUE ELSE t > session.last_accessed + timeout

\* [s for s in self.sessions.values() if s.active and not expired(s)]
active_sessions(ss, t) ==
    {i \in DOMAIN ss : ss[i].active /\ ~is_session_expired(ss[i], t)}

\* only the test on the clock: an inactive session is kept
cleanup_sessions_byClock(ss, t) ==
    LET Kept(session) == ~(t > session.last_accessed + timeout) IN SelectSeq(ss, Kept)

\* a test of its own, ">=" in place of ">", in place of _is_session_expired
cleanup_sessions_inclusive(ss, t) ==
    LET Kept(session) == session.active /\ ~(t >= session.last_accessed + timeout)
    IN  SelectSeq(ss, Kept)

\* cleanup_sessions: the expired records are deleted, the others keep their order
cleanup_sessions(ss, t) ==
    LET Kept(session) == ~is_session_expired(session, t) IN SelectSeq(ss, Kept)

\* max in place of min
oldest_session_newest(ss, live) ==
    CHOOSE i \in live :
        \A j \in live : \/ ss[i].last_accessed > ss[j].last_accessed
                        \/ ss[i].last_accessed = ss[j].last_accessed /\ i <= j

\* min(active_sessions, key=lambda s: s.last_accessed): the first of the
\* least recently accessed
oldest_session(ss, live) ==
    CHOOSE i \in live :
        \A j \in live : \/ ss[i].last_accessed < ss[j].last_accessed
                        \/ ss[i].last_accessed = ss[j].last_accessed /\ i <= j

\* the oldest session deleted in place of marked inactive
ensure_session_capacity_deleting(ss, t, capacity) ==
    IF Cardinality(active_sessions(ss, t)) >= capacity
    THEN LET cleaned == cleanup_sessions(ss, t)
             live    == active_sessions(cleaned, t)
         IN  IF Cardinality(live) >= capacity /\ live # {}
             THEN LET victim == cleaned[oldest_session(cleaned, live)].id
                      Others(session) == session.id # victim
                  IN  SelectSeq(cleaned, Others)
             ELSE cleaned
    ELSE ss

\* no eviction after the cleanup
ensure_session_capacity_cleanupOnly(ss, t, capacity) ==
    IF Cardinality(active_sessions(ss, t)) >= capacity
    THEN cleanup_sessions(ss, t)
    ELSE ss

\* _ensure_session_capacity
ensure_session_capacity(ss, t, capacity) ==
    IF Cardinality(active_sessions(ss, t)) >= capacity
    THEN LET cleaned == cleanup_sessions(ss, t)
             live    == active_sessions(cleaned, t)
         IN  IF Cardinality(live) >= capacity /\ live # {}
             THEN [cleaned EXCEPT ![oldest_session(cleaned, live)].active = FALSE]
             ELSE cleaned
    ELSE ss

\* self.sessions[session_id] = session: a key already there keeps its place
Store(ss, session) ==
    LET i == Position(ss, session.id) IN
    IF i = 0 THEN Append(ss, session) ELSE [ss EXCEPT ![i] = session]

\* the test for an existing session left out
create_session_overwriting(ss, session_id, t, capacity) ==
    Store(ensure_session_capacity(ss, t, capacity), Session(session_id, t))

\* the record of a known id used again, whatever its state
create_session_reviving(ss, session_id, t, capacity) ==
    LET i == Position(ss, session_id) IN
    IF i # 0
    THEN [ss EXCEPT ![i].last_accessed = t, ![i].active = TRUE]
    ELSE Store(ensure_session_capacity(ss, t, capacity), Session(session_id, t))

\* create_session for an id that is not None: the registry it leaves
create_session(ss, session_id, t, capacity) ==
    LET i == Position(ss, session_id) IN
    IF i # 0 /\ ss[i].active /\ ~is_session_expired(ss[i], t)
    THEN [ss EXCEPT ![i].last_accessed = t]
    ELSE Store(ensure_session_capacity(ss, t, capacity), Session(session_id, t))

\* last_accessed left as it was
get_session_unrefreshed(ss, session_id, t) ==
    LET i == Position(ss, session_id) IN
    IF i = 0 THEN [sessions |-> ss, found |-> FALSE]
    ELSE IF is_session_expired(ss[i], t)
    THEN [sessions |-> [ss EXCEPT ![i].active = FALSE], found |-> FALSE]
    ELSE [sessions |-> ss, found |-> TRUE]

\* get_session: the registry it leaves and whether it returns the session
get_session(ss, session_id, t) ==
    LET i == Position(ss, session_id) IN
    IF i = 0 THEN [sessions |-> ss, found |-> FALSE]
    ELSE IF is_session_expired(ss[i], t)
    THEN [sessions |-> [ss EXCEPT ![i].active = FALSE], found |-> FALSE]
    ELSE [sessions |-> [ss EXCEPT ![i].last_accessed = t], found |-> TRUE]

\* the session taken from the dict, not from get_session
update_session_unchecked(ss, session_id, message, t) ==
    LET i == Position(ss, session_id) IN
    IF i # 0
    THEN [sessions |-> [ss EXCEPT ![i].messages = Append(@, message),
                                  ![i].last_accessed = t],
          found |-> TRUE]
    ELSE [sessions |-> ss, found |-> FALSE]

\* update_session: the registry it leaves and what it returns
update_session(ss, session_id, message, t) ==
    LET r == get_session(ss, session_id, t)
        i == Position(r.sessions, session_id)
    IN  IF r.found
        THEN [sessions |-> [r.sessions EXCEPT ![i].messages = Append(@, message),
                                              ![i].last_accessed = t],
              found |-> TRUE]
        ELSE r

\* set_session_metadata: the registry it leaves and what it returns
set_session_metadata(ss, session_id, key, value, t) ==
    LET r == get_session(ss, session_id, t)
        i == Position(r.sessions, session_id)
    IN  IF r.found
        THEN [sessions |-> [r.sessions EXCEPT ![i].metadata[key] = value,
                                              ![i].last_accessed = t],
              found |-> TRUE]
        ELSE r

\* get_session_stats, without the two configuration values it repeats
get_session_stats(ss, t) ==
    [total_sessions   |-> Len(ss),
     active_sessions  |-> Cardinality({i \in DOMAIN ss :
                              ss[i].active /\ ~is_session_expired(ss[i], t)}),
     expired_sessions |-> Cardinality({i \in DOMAIN ss : is_session_expired(ss[i], t)})]

Bool(b) == IF b THEN "True" ELSE "False"

Call(op, id, result) == [op |-> op, id |-> id, result |-> result]

\* create_session goes past its test for an existing session and makes a
\* new Session object
makes_new(ss, session_id, t) ==
    LET i == Position(ss, session_id) IN
    ~(i # 0 /\ ss[i].active /\ ~is_session_expired(ss[i], t))

\* the list a caller holds when the registry goes from ss to after: a list
\* of a Session object that left the registry is no longer the list of the
\* session of that id
Detached(list, ss, after, replaced) ==
    IF list.kind = "live" /\ (Position(after, list.id) = 0 \/ list.id \in replaced)
    THEN [kind |-> "own", id |-> None, items |-> ss[Position(ss, list.id)].messages]
    ELSE list

RECURSIVE HeldCount(_)
\* the messages and the metadata entries of all the sessions
HeldCount(ss) ==
    IF ss = <<>> THEN 0
    ELSE Len(Head(ss).messages)
         + Cardinality({key \in Keys : Head(ss).metadata[key] # None})
         + HeldCount(Tail(ss))


\* create_session(session_id): None stands for a uuid4, an id not in use
CreateSession ==
    /\ \E session_id \in SessionIds \cup {None} :
          \E id \in (IF session_id = None
                     THEN SessionIds \ {sessions[i].id : i \in DOMAIN sessions}
                     ELSE {session_id}) :
              /\ sessions' = create_session(sessions, id, now, max_active)
              /\ last' = Call("create", id, id)
              /\ handed' = Detached(handed, sessions, sessions',
                                    IF makes_new(sessions, id, now) THEN {id} ELSE {})
    /\ UNCHANGED <<now, storeFrame>>
    /\ UNCHANGED <<vars, mergeVars, appVars>>

\* get_session(session_id)
GetSession ==
    /\ \E session_id \in SessionIds :
          LET r == get_session(sessions, session_id, now) IN
          /\ sessions' = r.sessions
          /\ last' = Call("get", session_id, IF r.found THEN session_id ELSE None)
    /\ UNCHANGED <<now, storeFrame, handed>>
    /\ UNCHANGED <<vars, mergeVars, appVars>>

\* update_session(session_id, message)
UpdateSession ==
    /\ HeldCount(sessions) < MaxHeld
    /\ \E session_id \in SessionIds, message \in Messages :
          LET r == update_session(sessions, session_id, message, now) IN
          /\ sessions' = r.sessions
          /\ last' = [op |-> "update", id |-> session_id, result |-> Bool(r.found),
                      message |-> message]
    /\ UNCHANGED <<now, storeFrame, handed>>
    /\ UNCHANGED <<vars, mergeVars, appVars>>

\* set_session_metadata(session_id, key, value)
SetSessionMetadata ==
    /\ HeldCount(sessions) < MaxHeld
    /\ \E session_id \in SessionIds, key \in Keys, value \in Values :
          LET r == set_session_metadata(sessions, session_id, key, value, now) IN
          /\ sessions' = r.sessions
          /\ last' = Call("metadata", session_id, Bool(r.found))
    /\ UNCHANGED <<now, storeFrame, handed>>
    /\ UNCHANGED <<vars, mergeVars, appVars>>

\* delete_session(session_id)
DeleteSession ==
    /\ \E session_id \in SessionIds :
          LET Others(session) == session.id # session_id IN
          /\ sessions' = SelectSeq(sessions, Others)
          /\ last' = Call("delete", session_id, Bool(Position(sessions, session_id) # 0))
          /\ handed' = Detached(handed, sessions, sessions', {})
    /\ UNCHANGED <<now, storeFrame>>
    /\ UNCHANGED <<vars, mergeVars, appVars>>

\* cleanup_sessions(), called by the owner or by _periodic_cleanup
CleanupSessions ==
    /\ sessions' = cleanup_sessions(sessions, now)
    /\ last' = Call("cleanup", None,
                    ToString(Len(sessions) - Len(cleanup_sessions(sessions, now))))
    /\ handed' = Detached(handed, sessions, sessions', {})
    /\ UNCHANGED <<now, storeFrame>>
    /\ UNCHANGED <<vars, mergeVars, appVars>>

\* the clock advances
Tick ==
    /\ now < MaxTime
    /\ now' = now + 1
    /\ last' = NoCall
    /\ UNCHANGED <<sessions, storeFrame, handed>>
    /\ UNCHANGED <<vars, mergeVars, appVars>>

InitStore == \E capacity \in 1..MaxCapacity : InitWith(capacity)

NextStore ==
    \/ CreateSession
    \/ GetSession
    \/ UpdateSession
    \/ SetSessionMetadata
    \/ DeleteSession
    \/ CleanupSessions
    \/ Tick

SpecStore == InitStore /\ [][NextStore]_storeVars

(***************************************************************************)
(* Properties of the session store                                         *)
(***************************************************************************)
\* the session has had no access for strictly longer than timeout
Stale(session, t) == t - session.last_accessed > timeout

\* the ids of the active, non-expired sessions
LiveIds(ss, t) == {ss[i].id : i \in {j \in DOMAIN ss : ss[j].active /\ ~Stale(ss[j], t)}}

RecordOf(ss, id) == ss[CHOOSE i \in DOMAIN ss : ss[i].id = id]

\* the step is a call of create_session(id)
Created(id) == last' = Call("create", id, id)

OneRecordPerId ==
    \A i, j \in DOMAIN sessions : sessions[i].id = sessions[j].id => i = j

\* C17: create_session for the id of an active, non-expired session returns
\* that session, leaves its messages and every other session as they were
\* and adds no record; the registry never holds two records of one id
C17_CreateIsIdempotent ==
    /\ []OneRecordPerId
    /\ [][\A id \in SessionIds :
            (Created(id) /\ id \in LiveIds(sessions, now)) =>
                /\ Len(sessions') = Len(sessions)
                /\ \A i \in DOMAIN sessions :
                      sessions'[i] = IF sessions[i].id = id
                                     THEN [sessions[i] EXCEPT !.last_accessed = now]
                                     ELSE sessions[i]]_storeVars

\* a session with a message, created again after the clock advanced
C17_Witness ==
    /\ last.op = "create"
    /\ \E i \in DOMAIN sessions :
          /\ sessions[i].id = last.id
          /\ sessions[i].messages # <<>>
          /\ sessions[i].last_accessed = now
    /\ now > 0
    /\ Len(sessions) = 2

\* C18: create_session for an id without a live session, when max_active
\* sessions are live, makes one live session unreachable by get_session, one
\* that no other live session is older than; the other live sessions and the
\* new one stay reachable
C18_EvictsTheOldest ==
    [][\A id \in SessionIds :
          LET live == LiveIds(sessions, now) IN
          (Created(id) /\ id \notin live /\ Cardinality(live) = max_active) =>
              /\ get_session(sessions', id, now).found
              /\ \E victim \in live :
                    /\ \A other \in live :
                          RecordOf(sessions, victim).last_accessed
                              <= RecordOf(sessions, other).last_accessed
                    /\ ~get_session(sessions', victim, now).found
                    /\ \A other \in live \ {victim} :
                          get_session(sessions', other, now).found]_storeVars

\* three sessions with max_active = 2: the one accessed before the clock
\* advanced is inactive though not expired, the other two are live
C18_Witness ==
    /\ max_active = 2
    /\ last.op = "create"
    /\ Len(sessions) = 3
    /\ Cardinality(LiveIds(sessions, now)) = 2
    /\ \E i \in DOMAIN sessions :
          /\ ~sessions[i].active
          /\ ~Stale(sessions[i], now)
          /\ \A j \in DOMAIN sessions \ {i} :
                sessions[j].last_accessed > sessions[i].last_accessed

\* C19: the active, non-expired sessions are never more than max_active,
\* and create_session returns a session of the requested id which
\* get_session finds
C19_CapacityIsEnforced ==
    /\ Cardinality(LiveIds(sessions, now)) <= max_active
    /\ last.op = "create" =>
          /\ last.result = last.id
          /\ get_session(sessions, last.id, now).found

\* max_active = 1: the second session took the place of the first
C19_Witness ==
    /\ max_active = 1
    /\ last.op = "create"
    /\ Len(sessions) = 2
    /\ sessions[1].id # last.id
    /\ ~sessions[1].active
    /\ sessions[2].id = last.id

\* C20: a session with no access for strictly longer than timeout is not
\* returned by get_session (nor found by update_session and
\* set_session_metadata), and cleanup_sessions removes its record
C20_ExpiredIsAbsentAndCleaned ==
    /\ [][\A id \in SessionIds :
            (/\ last'.op \in {"get", "update", "metadata"}
             /\ last'.id = id
             /\ Position(sessions, id) # 0
             /\ Stale(RecordOf(sessions, id), now))
                => /\ last'.result = IF last'.op = "get" THEN None ELSE "False"
                   /\ id \notin LiveIds(sessions', now)]_storeVars
    /\ [][last'.op = "cleanup" =>
            \A i \in DOMAIN sessions :
                Stale(sessions[i], now) => Position(sessions', sessions[i].id) = 0]_storeVars

\* cleanup_sessions removed the one session that had expired and kept one
\* that had not
C20_Witness ==
    /\ last = Call("cleanup", None, "1")
    /\ Len(sessions) = 1
    /\ sessions[1].active
    /\ now - sessions[1].last_accessed = timeout

\* expired, as the expiry rule has it
Expired(session, t) == ~session.active \/ Stale(session, t)

Ids(ss) == {ss[i].id : i \in DOMAIN ss}

\* C21: get_session returns nothing exactly when the id is unknown, or the
\* session is inactive, or now > last_accessed + timeout; an expired session
\* is marked inactive, its record and its messages stay
C21_AbsentIffUnknownOrExpired ==
    [][\A id \in SessionIds :
          (last'.op = "get" /\ last'.id = id) =>
              LET i == Position(sessions, id) IN
              /\ last'.result \in {None, id}
              /\ last'.result = None <=>
                    \/ i = 0
                    \/ ~sessions[i].active
                    \/ now > sessions[i].last_accessed + timeout
              /\ i = 0 => sessions' = sessions
              /\ (i # 0 /\ last'.result = None) =>
                    sessions' = [sessions EXCEPT ![i].active = FALSE]]_storeVars

\* get_session found a session with a message out of time: the record is
\* there, inactive, with its message
C21_Witness ==
    /\ last.op = "get"
    /\ last.result = None
    /\ Position(sessions, last.id) # 0
    /\ ~RecordOf(sessions, last.id).active
    /\ Stale(RecordOf(sessions, last.id), now)
    /\ RecordOf(sessions, last.id).messages # <<>>

Accesses == {"get", "update", "metadata"}

\* C22: get_session, update_session and set_session_metadata on a session
\* accessed at most timeout ago succeed and set last_accessed to now, and
\* nothing else moves last_accessed: a session accessed often enough stays
\* reachable
C22_SlidingWindow ==
    /\ [][\A id \in SessionIds :
            (last'.op \in Accesses /\ last'.id = id /\ id \in LiveIds(sessions, now)) =>
                /\ last'.result = IF last'.op = "get" THEN id ELSE "True"
                /\ RecordOf(sessions', id).last_accessed = now
                /\ id \in LiveIds(sessions', now)]_storeVars
    /\ [][\A id \in Ids(sessions) \cap Ids(sessions') :
            RecordOf(sessions', id).last_accessed # RecordOf(sessions, id).last_accessed
                => /\ last'.id = id
                   /\ RecordOf(sessions', id).last_accessed = now]_storeVars

\* later than timeout after the start, get_session returns a session that
\* holds a metadata entry
C22_Witness ==
    /\ now > timeout
    /\ last.op = "get"
    /\ last.result = last.id
    /\ RecordOf(sessions, last.id).last_accessed = now
    /\ \E key \in Keys : RecordOf(sessions, last.id).metadata[key] # None

C24_CleanupRemovesExactlyTheExpired ==
    [][last'.op = "cleanup" =>
          LET Live(session) == ~Expired(session, now)
              Dead(session) == Expired(session, now)
          IN  /\ sessions' = SelectSeq(sessions, Live)
              /\ last'.result = ToString(Len(SelectSeq(sessions, Dead)))
              /\ \A i \in DOMAIN sessions' : ~Expired(sessions'[i], now)]_storeVars

\* one session removed, two kept, one of them with a message
C24_Witness ==
    /\ last = Call("cleanup", None, "1")
    /\ Len(sessions) = 2
    /\ \E i \in DOMAIN sessions : sessions[i].messages # <<>>

\* C25: the statistics count every record, the live ones as active and the
\* others as expired; a session that create_session makes unreachable keeps
\* its record, inactive, and no session that was live loses its record
C25_EvictionIsSoft ==
    /\ [](LET stats == get_session_stats(sessions, now) IN
          /\ stats.total_sessions = Len(sessions)
          /\ stats.active_sessions = Cardinality(LiveIds(sessions, now))
          /\ stats.expired_sessions = Len(sessions) - Cardinality(LiveIds(sessions, now)))
    /\ [][\A id \in SessionIds :
            Created(id) =>
                \A victim \in LiveIds(sessions, now) :
                    /\ victim \in Ids(sessions')
                    /\ victim \notin LiveIds(sessions', now) =>
                          /\ ~RecordOf(sessions', victim).active
                          /\ RecordOf(sessions', victim).messages
                                = RecordOf(sessions, victim).messages
                          /\ ~get_session(sessions', victim, now).found]_storeVars

\* get_session did not return an evicted session, which the statistics count
\* as the one expired session of three
C25_Witness ==
    /\ last.op = "get"
    /\ last.result = None
    /\ Position(sessions, last.id) # 0
    /\ ~RecordOf(sessions, last.id).active
    /\ ~Stale(RecordOf(sessions, last.id), now)
    /\ get_session_stats(sessions, now).total_sessions = 3
    /\ get_session_stats(sessions, now).expired_sessions = 1
    /\ get_session_stats(sessions, now).active_sessions = 2

(***************************************************************************)
(* Properties of the entry of an orchestration call                        *)
(***************************************************************************)
\* ChatRequest.session_id of the request the loop serves; chat_completions
\* reads no field of the session store before it starts the generator
request_session_id == "a"

\* C28: for a request whose session id names no live session, no model
\* stream is opened and no fragment is emitted
C28_UnknownSessionGetsNoStream ==
    ~get_session(sessions, request_session_id, now).found =>
        /\ streamsOpened = 0
        /\ emitted = <<>>

(***************************************************************************)
(* The life of the plugin and its background task (_periodic_cleanup).     *)
(* The task is suspended in asyncio.sleep between two ticks; initialize    *)
(* and shutdown are called once each, by the application.                  *)
(***************************************************************************)
\* asyncio.create_task(self._periodic_cleanup())
NewTask == [state |-> "sleeping", cancelled |-> FALSE]

\* the exception ends the task
AfterTickError_ends == "done"

\* except Exception: the error is logged and the loop goes on
AfterTickError == "sleeping"

\* the cancellation is swallowed and the loop goes on waiting
AfterCancelled_loops == "sleeping"

\* except asyncio.CancelledError: break, and the coroutine returns
AfterCancelled == "done"

\* the tasks that can still tick
Ticking == {i \in DOMAIN tasks : tasks[i].state = "sleeping" /\ ~tasks[i].cancelled}

\* initialize(): the configuration is read and the task made
Initialize ==
    /\ tasks = <<>>
    /\ shutdown_pc = "idle"
    /\ tasks' = <<NewTask>>
    /\ UNCHANGED <<sessions, now, last, max_active, shutdown_pc, inflight, handed>>
    /\ UNCHANGED <<vars, mergeVars, appVars>>

\* the sleep of a task ends and cleanup_sessions runs
ReaperTick ==
    /\ Ticking # {}
    /\ sessions' = cleanup_sessions(sessions, now)
    /\ last' = Call("cleanup", None,
                    ToString(Len(sessions) - Len(cleanup_sessions(sessions, now))))
    /\ handed' = Detached(handed, sessions, sessions', {})
    /\ UNCHANGED <<now, storeFrame>>
    /\ UNCHANGED <<vars, mergeVars, appVars>>

\* a tick raises an exception before it has cleaned anything
TickError ==
    /\ \E i \in Ticking : tasks' = [tasks EXCEPT ![i].state = AfterTickError]
    /\ last' = Call("tick_error", None, None)
    /\ UNCHANGED <<sessions, now, max_active, shutdown_pc, inflight, handed>>
    /\ UNCHANGED <<vars, mergeVars, appVars>>

\* a cancelled task is resumed with CancelledError and leaves its loop
ReaperCancelled ==
    /\ \E i \in DOMAIN tasks :
          /\ tasks[i].state = "sleeping"
          /\ tasks[i].cancelled
          /\ tasks' = [tasks EXCEPT ![i].state = AfterCancelled]
    /\ UNCHANGED <<sessions, now, last, max_active, shutdown_pc, inflight, handed>>
    /\ UNCHANGED <<vars, mergeVars, appVars>>

\* shutdown(), up to its await: the task is cancelled
Shutdown ==
    /\ tasks # <<>>
    /\ shutdown_pc = "idle"
    /\ shutdown_pc' = "awaiting"
    /\ tasks' = IF Last(tasks).state = "sleeping"
                THEN [tasks EXCEPT ![Len(tasks)].cancelled = TRUE]
                ELSE tasks
    /\ UNCHANGED <<sessions, now, last, max_active, inflight, handed>>
    /\ UNCHANGED <<vars, mergeVars, appVars>>

\* shutdown(), after its await: the awaited task is over, the registry is
\* cleared
ShutdownEnd ==
    /\ shutdown_pc = "awaiting"
    /\ \A i \in DOMAIN tasks : tasks[i].cancelled => tasks[i].state = "done"
    /\ shutdown_pc' = "done"
    /\ sessions' = <<>>
    /\ last' = Call("shutdown", None, None)
    /\ handed' = Detached(handed, sessions, sessions', {})
    /\ UNCHANGED <<now, max_active, tasks, inflight>>
    /\ UNCHANGED <<vars, mergeVars, appVars>>

\* health_check(): a task that is done is replaced by a new one; the result
\* tells whether the active sessions are within max_active * 1.1
HealthCheck ==
    /\ Len(tasks) < MaxTasks
    /\ tasks' = IF tasks # <<>> /\ Last(tasks).state = "done"
                THEN Append(tasks, NewTask)
                ELSE tasks
    /\ last' = Call("health", None,
                    Bool(~(10 * get_session_stats(sessions, now).active_sessions
                             > 11 * max_active)))
    /\ UNCHANGED <<sessions, now, max_active, shutdown_pc, inflight, handed>>
    /\ UNCHANGED <<vars, mergeVars, appVars>>

NextReaper ==
    \/ Initialize
    \/ ReaperTick
    \/ TickError
    \/ ReaperCancelled
    \/ Shutdown
    \/ ShutdownEnd
    \/ HealthCheck
    \/ CreateSession
    \/ GetSession
    \/ Tick

\* the event loop resumes a task whose sleep has ended
SpecReaper == Init /\ [][NextReaper]_storeVars /\ WF_storeVars(ReaperTick)

\* the event loop resumes a cancelled task, and then the coroutine that
\* awaits it
SpecShutdown ==
    /\ Init
    /\ [][NextReaper]_storeVars
    /\ WF_storeVars(ReaperCancelled)
    /\ WF_storeVars(ShutdownEnd)

(***************************************************************************)
(* Properties of the background task                                       *)
(***************************************************************************)
\* the registry holds an expired record of the id
HoldsExpired(id) ==
    /\ Position(sessions, id) # 0
    /\ Expired(RecordOf(sessions, id), now)

\* a task was made and cancel() was called on none
Uncancelled == tasks # <<>> /\ \A i \in DOMAIN tasks : ~tasks[i].cancelled

\* C29: while no task has been cancelled, an expired session is removed in
\* the end, and a tick that raises leaves its task a task that ticks
C29_ExpiredIsReaped ==
    /\ \A id \in SessionIds :
          (HoldsExpired(id) /\ Uncancelled) ~> (~HoldsExpired(id) \/ ~Uncancelled)
    /\ [][(last.op # "tick_error" /\ last'.op = "tick_error") => Ticking' = Ticking]_storeVars

\* a tick of a task that was never cancelled has removed an expired session
C29_Witness ==
    /\ last = Call("cleanup", None, "1")
    /\ Uncancelled
    /\ now > timeout

\* C30: health_check makes a new task only when the last one is done and
\* was not cancelled
C30_RestartOnlyAfterDeath ==
    [][(tasks # <<>> /\ Len(tasks') > Len(tasks)) =>
          /\ Last(tasks).state = "done"
          /\ ~Last(tasks).cancelled]_storeVars

(***************************************************************************)
(* Registry calls of coroutines in flight.  create_session is taken in its *)
(* two halves, the test for an existing session (lines 69-78) and the      *)
(* making of a new one (lines 81-92), so that what may run between the two *)
(* is a matter of scheduling.                                              *)
(***************************************************************************)
\* an await between the two halves
MayInterleave_yes == TRUE

\* create_session is a plain def: there is no await between its first line
\* and its return, so the event loop runs nothing else in between
MayInterleave == FALSE

\* no coroutine is inside create_session, or the event loop may switch there
Quiet == MayInterleave \/ \A c \in Callers : inflight[c].pc # "creating"

\* lines 69-78: a live session of the id is refreshed and returned
EnterCreate ==
    /\ Quiet
    /\ \E c \in Callers, id \in SessionIds :
          /\ inflight[c].pc = "outside"
          /\ IF makes_new(sessions, id, now)
             THEN /\ inflight' = [inflight EXCEPT ![c] = [pc |-> "creating", id |-> id, got |-> None]]
                  /\ UNCHANGED <<sessions, last>>
             ELSE /\ inflight' = [inflight EXCEPT ![c] = [pc |-> "returned", id |-> id, got |-> "existing"]]
                  /\ sessions' = [sessions EXCEPT ![Position(sessions, id)].last_accessed = now]
                  /\ last' = Call("create", id, id)
    /\ UNCHANGED <<now, max_active, tasks, shutdown_pc, handed>>
    /\ UNCHANGED <<vars, mergeVars, appVars>>

\* lines 81-92: room is made, the new Session is stored and returned
FinishCreate ==
    /\ \E c \in Callers :
          /\ inflight[c].pc = "creating"
          /\ sessions' = Store(ensure_session_capacity(sessions, now, max_active),
                               Session(inflight[c].id, now))
          /\ inflight' = [inflight EXCEPT ![c].pc = "returned", ![c].got = "new"]
          /\ last' = Call("create", inflight[c].id, inflight[c].id)
          /\ handed' = Detached(handed, sessions, sessions', {inflight[c].id})
    /\ UNCHANGED <<now, max_active, tasks, shutdown_pc>>
    /\ UNCHANGED <<vars, mergeVars, appVars>>

\* the coroutine drops the session it was given and goes on
Leave ==
    /\ Quiet
    /\ \E c \in Callers :
          /\ inflight[c].pc = "returned"
          /\ inflight' = [inflight EXCEPT ![c] = Outside]
    /\ UNCHANGED <<sessions, now, last, max_active, tasks, shutdown_pc, handed>>
    /\ UNCHANGED <<vars, mergeVars, appVars>>

\* delete_session of another coroutine
ConcDelete == Quiet /\ DeleteSession

\* initialize() of the plugin
ConcInitialize == Quiet /\ Initialize

\* a tick of the Reaper
ConcReaperTick == Quiet /\ ReaperTick

\* the clock does not wait for the event loop
NextConc ==
    \/ EnterCreate
    \/ FinishCreate
    \/ Leave
    \/ ConcDelete
    \/ ConcInitialize
    \/ ConcReaperTick
    \/ Tick

SpecConc == Init /\ [][NextConc]_storeVars

(***************************************************************************)
(* Properties of concurrent registry calls                                 *)
(***************************************************************************)
\* the step is the return of create_session to caller c
Returns(c) == inflight[c].pc # "returned" /\ inflight'[c].pc = "returned"

\* C26: a create_session that returns a new Session found no live session
\* of the id in the registry it stored into, one that returns an existing
\* session returns the stored record with only last_accessed written, and
\* the registry holds one record per id
C26_CreateIsAtomic ==
    /\ []OneRecordPerId
    /\ [][\A c \in Callers : Returns(c) =>
             IF inflight'[c].got = "new"
             THEN makes_new(sessions, inflight'[c].id, now)
             ELSE /\ ~makes_new(sessions, inflight'[c].id, now)
                  /\ Len(sessions') = Len(sessions)
                  /\ RecordOf(sessions', inflight'[c].id)
                       = [RecordOf(sessions, inflight'[c].id) EXCEPT !.last_accessed = now]
          ]_storeVars

\* both callers asked for the session of one id: the first made it, the
\* second was given it
C26_Witness ==
    /\ inflight["p"] = [pc |-> "returned", id |-> "a", got |-> "new"]
    /\ inflight["q"] = [pc |-> "returned", id |-> "a", got |-> "existing"]
    /\ Len(sessions) = 1

(***************************************************************************)
(* The list get_session_messages returns, in the hands of its caller.  A   *)
(* list of kind "live" is the very list object session.messages of the     *)
(* stored session; a list of kind "own" belongs to the caller alone.       *)
(***************************************************************************)
\* limit: Optional[int], <<>> for None and <<n>> for the int n
Limits == {<<>>} \cup {<<n>> : n \in 0 .. MaxShared}

\* the truth value of limit in "if limit and ...": None and 0 are false
HasLimit(limit) == limit # <<>> /\ limit[1] # 0

\* messages[-limit:]
LastItems(items, limit) == SubSeq(items, Len(items) - limit + 1, Len(items))

\* the list returned by get_session_messages(session_id, limit) when
\* get_session has left the registry ss and found tells whether it returned
\* the session
get_session_messages(ss, found, session_id, limit) ==
    IF ~found
    THEN [kind |-> "own", id |-> None, items |-> <<>>]
    ELSE LET held == ss[Position(ss, session_id)].messages IN
         IF HasLimit(limit) /\ Len(held) > limit[1]
         THEN [kind |-> "own", id |-> None, items |-> LastItems(held, limit[1])]
         ELSE [kind |-> "live", id |-> session_id, items |-> <<>>]

\* what the caller reads in the list it holds
ViewOf(list, ss) ==
    IF list.kind = "live" THEN ss[Position(ss, list.id)].messages ELSE list.items

\* get_session_messages(session_id, limit)
GetSessionMessages ==
    /\ \E session_id \in SessionIds, limit \in Limits :
          LET r == get_session(sessions, session_id, now) IN
          /\ sessions' = r.sessions
          /\ handed' = get_session_messages(r.sessions, r.found, session_id, limit)
          /\ last' = Call("messages", session_id, ToString(Len(ViewOf(handed', sessions'))))
    /\ UNCHANGED <<now, storeFrame>>
    /\ UNCHANGED <<vars, mergeVars, appVars>>

\* the caller appends a message to the list it was given
CallerAppends ==
    /\ handed.kind # "none"
    /\ Len(ViewOf(handed, sessions)) < MaxShared
    /\ \E message \in Messages :
          IF handed.kind = "live"
          THEN /\ sessions' = [sessions EXCEPT
                                  ![Position(sessions, handed.id)].messages = Append(@, message)]
               /\ UNCHANGED handed
          ELSE /\ handed' = [handed EXCEPT !.items = Append(@, message)]
               /\ UNCHANGED sessions
    /\ last' = Call("append", None, None)
    /\ UNCHANGED <<now, storeFrame>>
    /\ UNCHANGED <<vars, mergeVars, appVars>>

NextShare ==
    \/ CreateSession
    \/ UpdateSession
    \/ GetSessionMessages
    \/ CallerAppends

SpecShare == Init /\ [][NextShare]_storeVars

(***************************************************************************)
(* Properties of the returned list                                         *)
(***************************************************************************)
\* C27: an append of the caller to the list it was given changes no stored
\* session, and update_session changes no list given out before
C27_ReturnedListIsIsolated ==
    [][/\ last'.op = "append" => sessions' = sessions
       /\ last'.op = "update" => ViewOf(handed', sessions') = ViewOf(handed, sessions)
      ]_storeVars

(***************************************************************************)
(* Properties of shutdown                                                  *)
(***************************************************************************)
\* C31: a shutdown that has cancelled the task returns; when it has
\* returned the cancelled task is done, the return leaves the registry
\* empty, a task that is done stays as it is, and with no task made since
\* there is no tick any more
C31_ShutdownEndsTheReaper ==
    /\ (shutdown_pc = "awaiting") ~> (shutdown_pc = "done")
    /\ [](shutdown_pc = "done" =>
             \A i \in DOMAIN tasks : tasks[i].cancelled => tasks[i].state = "done")
    /\ [][(shutdown_pc = "awaiting" /\ shutdown_pc' = "done") => sessions' = <<>>]_storeVars
    /\ [][\A i \in DOMAIN tasks : tasks[i].state = "done" => tasks'[i] = tasks[i]]_storeVars
    /\ [][(shutdown_pc = "done" /\ Len(tasks) = 1) => ~ReaperTick]_storeVars

\* shutdown has returned: the one task was cancelled and is done
C31_Witness ==
    /\ shutdown_pc = "done"
    /\ tasks = <<[state |-> "done", cancelled |-> TRUE]>>
    /\ last = Call("shutdown", None, None)
    /\ sessions = <<>>

(***************************************************************************)
(* The domain objects of the application layer (core/domain)               *)
(***************************************************************************)
\* ToolCall(id=..., function_name=..., arguments=...): status is PENDING
ToolCall(id) == [id |-> id, status |-> "pending", error |-> None]

\* the status left as it is
with_status_kept(tool_call, status) == tool_call

\* ToolCall.with_status
with_status(tool_call, status) == [tool_call EXCEPT !.status = status]

\* ToolCall has a method replace
HasReplace_yes == TRUE

\* with_result and with_error call self.with_status(...).replace(...);
\* neither ToolCall nor ValueObject nor dataclass gives an instance a method
\* replace, so the call raises AttributeError
HasReplace == FALSE

\* ToolCall.with_error: the record it returns, or that it raised
with_error(tool_call, error) ==
    IF HasReplace
    THEN [raised |-> FALSE,
          tool_call |-> [with_status(tool_call, "failed") EXCEPT !.error = error]]
    ELSE [raised |-> TRUE, tool_call |-> tool_call]

\* Conversation.update_tool_call: the conversation it leaves, or that it
\* raised ValueError
update_tool_call(conv, tool_call_id, tool_call) ==
    IF conv.tool_calls[tool_call_id].status = "absent"
    THEN [raised |-> TRUE, conversation |-> conv]
    ELSE [raised |-> FALSE,
          conversation |-> [conv EXCEPT !.tool_calls[tool_call_id] = tool_call]]

is_tool_call_message(message) ==
    message.role = "assistant" /\ message.tool_calls # <<>>

is_tool_response_message(message) ==
    message.role = "tool" /\ message.tool_call_id # None

RECURSIVE Recorded(_, _)
\* for tool_call_data in message.tool_calls: an entry with an id puts a new
\* pending ToolCall under that id
Recorded(map, list) ==
    IF list = <<>> THEN map
    ELSE Recorded(IF Head(list) # ""
                  THEN [map EXCEPT ![Head(list)] = ToolCall(Head(list))]
                  ELSE map,
                  Tail(list))

\* the test of the tool_call_id left out
add_message_unchecked(conv, message) ==
    [raised |-> FALSE,
     conversation |->
        [messages |-> Append(conv.messages, message),
         tool_calls |-> IF is_tool_call_message(message)
                        THEN Recorded(conv.tool_calls, message.tool_calls[1])
                        ELSE conv.tool_calls]]

\* Conversation.add_message: the conversation it leaves, or that it raised
\* ValueError
add_message(conv, message) ==
    IF is_tool_call_message(message)
    THEN [raised |-> FALSE,
          conversation |->
             [messages |-> Append(conv.messages, message),
              tool_calls |-> Recorded(conv.tool_calls, message.tool_calls[1])]]
    ELSE IF /\ is_tool_response_message(message)
            /\ conv.tool_calls[message.tool_call_id].status = "absent"
    THEN [raised |-> TRUE, conversation |-> conv]
    ELSE [raised |-> FALSE,
          conversation |-> [conv EXCEPT !.messages = Append(@, message)]]

(***************************************************************************)
(* handle_execute_tool_calls, one action per resumption: it is suspended   *)
(* in find_by_id, in execute_tool of each call, and in save.  The tool     *)
(* executor is an interface (ToolExecutor); an executor either raises or   *)
(* returns the call with a final status.                                   *)
(***************************************************************************)
\* the tool_calls lists of assistant messages
AssistantLists == {<<>>, <<"t1">>, <<"t1", "t2">>, <<"", "t2">>}

AppMessages ==
    {Message("user", <<>>, None)}
    \cup {Message("assistant", <<list>>, None) : list \in AssistantLists}
    \cup {Message("tool", <<>>, id) : id \in ToolIds \cup {None}}

\* command.tool_calls, by the ids of its entries
Commands == UNION {[1..n -> ToolIds] : n \in 1..MaxCalls}

\* the status of the ToolCall an executor returns
ExecutorStatuses == {"completed", "failed"}

Returned(id, status) ==
    [id |-> id, status |-> status,
     error |-> IF status = "failed" THEN "tool failed" ELSE None]

RECURSIVE dispatch(_, _, _, _), failed(_, _, _, _)
\* the loop from the call at position i up to the next await: the call is
\* recorded as executing and the executor awaited; after the last call the
\* conversation is saved
dispatch(conv, calls, i, raised_at) ==
    IF i > Len(calls)
    THEN [conversation |-> conv, pc |-> "saving", index |-> i, raised_at |-> raised_at]
    ELSE LET u == update_tool_call(conv, calls[i],
                                   with_status(ToolCall(calls[i]), "executing"))
         IN  IF u.raised
             THEN failed(conv, calls, i, "not found")
             ELSE [conversation |-> u.conversation, pc |-> "awaiting", index |-> i,
                   raised_at |-> raised_at]

\* except Exception as e: the call is recorded as failed and the loop goes
\* on; an exception raised here leaves the method
failed(conv, calls, i, error) ==
    LET f == with_error(ToolCall(calls[i]), error) IN
    IF f.raised
    THEN [conversation |-> conv, pc |-> "raised", index |-> i, raised_at |-> i]
    ELSE LET u == update_tool_call(conv, calls[i], f.tool_call) IN
         IF u.raised
         THEN [conversation |-> conv, pc |-> "raised", index |-> i, raised_at |-> i]
         ELSE dispatch(u.conversation, calls, i + 1, i)

\* conversation.add_message(message), while the handler is not suspended
\* inside its loop
AddMessage ==
    /\ handler.pc \in {"idle", "returned", "raised"}
    /\ \E message \in AppMessages :
          LET r == add_message(conversation, message) IN
          /\ Len(r.conversation.messages) <= MaxConv
          /\ conversation' = r.conversation
          /\ added' = [op |-> "add", message |-> message, raised |-> r.raised]
    /\ UNCHANGED handler
    /\ UNCHANGED <<vars, mergeVars, storeVars>>

\* handle_execute_tool_calls(command) is called and awaits find_by_id
Submit ==
    /\ handler.pc \in {"idle", "returned", "raised"}
    /\ \E calls \in Commands :
          handler' = [pc |-> "finding", calls |-> calls, index |-> 0, raised_at |-> 0]
    /\ UNCHANGED <<conversation, added>>
    /\ UNCHANGED <<vars, mergeVars, storeVars>>

\* find_by_id returns the conversation: the ToolCall objects are made and
\* the loop runs up to its first await
Begin ==
    /\ handler.pc = "finding"
    /\ LET r == dispatch(conversation, handler.calls, 1, 0) IN
       /\ conversation' = r.conversation
       /\ handler' = [handler EXCEPT !.pc = r.pc, !.index = r.index,
                                     !.raised_at = r.raised_at]
    /\ UNCHANGED added
    /\ UNCHANGED <<vars, mergeVars, storeVars>>

\* execute_tool returns: what it returned is recorded, and the loop runs up
\* to its next await
ExecutorReturns ==
    /\ handler.pc = "awaiting"
    /\ \E status \in ExecutorStatuses :
          LET id == handler.calls[handler.index]
              u  == update_tool_call(conversation, id, Returned(id, status))
              r  == IF u.raised
                    THEN failed(conversation, handler.calls, handler.index, "not found")
                    ELSE dispatch(u.conversation, handler.calls, handler.index + 1,
                                  handler.raised_at)
          IN  /\ conversation' = r.conversation
              /\ handler' = [handler EXCEPT !.pc = r.pc, !.index = r.index,
                                            !.raised_at = r.raised_at]
    /\ UNCHANGED added
    /\ UNCHANGED <<vars, mergeVars, storeVars>>

\* execute_tool raises
ExecutorRaises ==
    /\ handler.pc = "awaiting"
    /\ LET r == failed(conversation, handler.calls, handler.index, "tool raised") IN
       /\ conversation' = r.conversation
       /\ handler' = [handler EXCEPT !.pc = r.pc, !.index = r.index,
                                     !.raised_at = r.raised_at]
    /\ UNCHANGED added
    /\ UNCHANGED <<vars, mergeVars, storeVars>>

\* save returns and the ConversationResult is returned
Saved ==
    /\ handler.pc = "saving"
    /\ handler' = [handler EXCEPT !.pc = "returned"]
    /\ UNCHANGED <<conversation, added>>
    /\ UNCHANGED <<vars, mergeVars, storeVars>>

NextApp ==
    \/ AddMessage
    \/ Submit
    \/ Begin
    \/ ExecutorReturns
    \/ ExecutorRaises
    \/ Saved

SpecApp == Init /\ [][NextApp]_appVars

(***************************************************************************)
(* Properties of handle_execute_tool_calls                                 *)
(***************************************************************************)
StatusOf(conv, id) == conv.tool_calls[id].status

Forward == {<<"pending", "executing">>, <<"executing", "completed">>,
            <<"executing", "failed">>}

\* a call that has ended is submitted once more
Again == {<<"completed", "executing">>, <<"failed", "executing">>}

\* the step is a step of handle_execute_tool_calls
HandlerStep == handler' # handler

\* the executor has been invoked for a call recorded as executing
ExecutingBeforeExecutor ==
    handler.pc = "awaiting" =>
        StatusOf(conversation, handler.calls[handler.index]) = "executing"

\* the operation returns with every submitted call completed or failed
ReturnsWithAllEnded ==
    (handler.pc = "saving" /\ handler'.pc = "returned") =>
        \A i \in DOMAIN handler.calls :
            StatusOf(conversation', handler.calls[i]) \in ExecutorStatuses

\* the changes of status the steps of the handler make are among moves
MovesWithin(moves) ==
    HandlerStep =>
        \A id \in ToolIds :
            \/ StatusOf(conversation', id) = StatusOf(conversation, id)
            \/ <<StatusOf(conversation, id), StatusOf(conversation', id)>> \in moves

\* C32 as stated: the handler moves the status of a call only from pending
\* to executing and from executing to completed or failed
C32_StatusOnlyMovesForward ==
    /\ []ExecutingBeforeExecutor
    /\ [][MovesWithin(Forward) /\ ReturnsWithAllEnded]_appVars

\* C32: the handler moves the status of a call from pending to executing,
\* from executing to completed or failed, and, when a call that has ended
\* is submitted again, from completed or failed back to executing
C32_StatusMovesThroughExecuting ==
    /\ []ExecutingBeforeExecutor
    /\ [][MovesWithin(Forward \cup Again) /\ ReturnsWithAllEnded]_appVars

\* both calls of a command have been executed and the operation has
\* returned
C32_Witness ==
    /\ handler.pc = "returned"
    /\ handler.calls = <<"t1", "t2">>
    /\ StatusOf(conversation, "t1") = "completed"
    /\ StatusOf(conversation, "t2") = "failed"

\* C33: a call whose execution raised is recorded as failed, and the
\* operation does not raise
C33_FailureIsIsolated ==
    handler.raised_at # 0 =>
        /\ StatusOf(conversation, handler.calls[handler.raised_at]) = "failed"
        /\ handler.pc # "raised"

(***************************************************************************)
(* Properties of Conversation.add_message                                  *)
(***************************************************************************)
\* the ids of the entries of the tool_calls of a message
Issued(message) ==
    IF is_tool_call_message(message)
    THEN {message.tool_calls[1][i] : i \in DOMAIN message.tool_calls[1]} \ {""}
    ELSE {}

\* every tool response comes after an assistant message that issued its id
ResponsesReferToIssuedCalls ==
    \A k \in DOMAIN conversation.messages :
        is_tool_response_message(conversation.messages[k]) =>
            \E j \in 1..(k - 1) :
                conversation.messages[k].tool_call_id \in Issued(conversation.messages[j])

FinishOf(chunk) ==
    IF chunk.choices = <<>> THEN None ELSE chunk.choices[1].finish_reason

ContentOf(chunk) ==
    IF chunk.choices = <<>> THEN None ELSE chunk.choices[1].delta.content

RECURSIVE RoundStart(_, _)
\* the number of chunks received before the round whose last chunk is at
\* position k began: a stream is left at its first chunk with the finish
\* reason tool_calls, so the round began after the last such chunk before k
RoundStart(chunks, k) ==
    IF k <= 1 THEN 0
    ELSE IF FinishOf(chunks[k - 1]) = "tool_calls" THEN k - 1
    ELSE RoundStart(chunks, k - 1)

\* the chunks of the round that has just received its last chunk
RoundChunks(chunks) ==
    SubSeq(chunks, RoundStart(chunks, Len(chunks)) + 1, Len(chunks))

RECURSIVE Concatenated(_)
\* the content of the chunks, in arrival order
Concatenated(chunks) ==
    IF chunks = <<>> THEN ""
    ELSE IF ContentOf(Head(chunks)) = None THEN Concatenated(Tail(chunks))
    ELSE ContentOf(Head(chunks)) \o Concatenated(Tail(chunks))

RECURSIVE Assembled(_, _, _)
\* the drafts the deltas of the chunks make of the drafts tcs, with uuid4
\* drawn n times before
Assembled(chunks, tcs, n) ==
    IF chunks = <<>> THEN tcs
    ELSE LET r == process_chunk(Head(chunks), [EmptyState EXCEPT !.tool_calls = tcs], n)
         IN  Assembled(Tail(chunks), r.state.tool_calls, r.uuids)

RECURSIVE DrawsIn(_, _, _)
\* the uuid4 draws after the chunks, each round starting from no draft
DrawsIn(chunks, tcs, n) ==
    IF chunks = <<>> THEN n
    ELSE LET r == process_chunk(Head(chunks), [EmptyState EXCEPT !.tool_calls = tcs], n)
         IN  DrawsIn(Tail(chunks),
                     IF FinishOf(Head(chunks)) = "tool_calls" THEN <<>> ELSE r.state.tool_calls,
                     r.uuids)

\* the step appends the assistant message of a round
AppendsAssistant ==
    /\ Len(messages') = Len(messages) + 1
    /\ Last(messages').role = "assistant"

\* C35: the assistant message of a round holds the content of the chunks of
\* that round, in arrival order, and the drafts made of the deltas of that
\* round, and every round begins with an empty round state
C35_RoundStateDoesNotLeak ==
    /\ [][AppendsAssistant =>
             LET before == RoundStart(pulled, Len(pulled)) IN
             /\ Last(messages').content = Concatenated(RoundChunks(pulled))
             /\ Last(messages').tool_calls
                  = Assembled(RoundChunks(pulled), <<>>,
                              DrawsIn(SubSeq(pulled, 1, before), <<>>, 0))
          ]_vars
    /\ [][streamsOpened' > streamsOpened => state' = EmptyState]_vars

\* the second round has appended its assistant message, without the content
\* of the first
C35_Witness ==
    /\ Len(messages) >= 5
    /\ messages[2].role = "assistant"
    /\ messages[2].content = "a"
    /\ messages[5].role = "assistant"
    /\ messages[5].content = ""
    /\ Len(pulled) = 3

(***************************************************************************)
(* Properties of the message list of the request                           *)
(***************************************************************************)
\* the continuation prompt of line 192-196
Continuation == ChatMessage("user", ContinuePrompt, <<>>)

\* the number of messages of the request when the call begins
InitialCount == Len(InitialMessages)

RECURSIVE InRounds(_, _)
\* from position i on, msgs is made of the messages of tool-execution
\* rounds: an assistant message with n drafts, n tool messages that answer
\* the drafts in their order, the continuation prompt; the last round may
\* have got only as far as it is
InRounds(msgs, i) ==
    IF i > Len(msgs) THEN TRUE
    ELSE LET n == Len(msgs[i].tool_calls) IN
         /\ msgs[i].role = "assistant"
         /\ n > 0
         /\ \A k \in 1..n :
               i + k <= Len(msgs) =>
                  /\ msgs[i + k].role = "tool"
                  /\ msgs[i + k].tool_call_id \in {None, msgs[i].tool_calls[k].id}
         /\ i + n + 1 <= Len(msgs) =>
               /\ msgs[i + n + 1] = Continuation
               /\ InRounds(msgs, i + n + 2)

\* C36: no step removes, changes or moves a message of the request, and
\* what the rounds append is, for each round with n drafts, one assistant
\* message, n tool messages in the order of the drafts and one continuation
\* prompt, the round ending with the prompt
C36_MessagesAreAppendOnly ==
    /\ [][/\ Len(messages') \in {Len(messages), Len(messages) + 1}
          /\ SubSeq(messages', 1, Len(messages)) = messages]_vars
    /\ []InRounds(messages, InitialCount + 1)
    /\ [][pc = "yield_complete" /\ pc' # pc =>
             /\ Len(messages') = Len(messages) + 1
             /\ Last(messages') = Continuation]_vars

\* a round with two drafts has appended its four messages
C36_Witness ==
    /\ Len(messages) = InitialCount + 4
    /\ Len(messages[InitialCount + 1].tool_calls) = 2
    /\ messages[InitialCount + 2].role = "tool"
    /\ messages[InitialCount + 3].role = "tool"
    /\ messages[InitialCount + 4] = Continuation

\* the list ends with the messages of a whole tool round: an assistant
\* message with n drafts, n tool messages, the continuation prompt
EndsWithRound(msgs) ==
    /\ msgs # <<>>
    /\ Last(msgs) = Continuation
    /\ \E n \in 1..(Len(msgs) - 2) :
          /\ msgs[Len(msgs) - 1 - n].role = "assistant"
          /\ Len(msgs[Len(msgs) - 1 - n].tool_calls) = n
          /\ \A k \in 1..n : msgs[Len(msgs) - 1 - n + k].role = "tool"

\* C37: the continuation prompt is appended after every tool round, the
\* round of index max_rounds - 1 included; when the rounds are exhausted the
\* list ends with that round's tool messages and the continuation prompt,
\* max_rounds streams have been opened, and no stream is opened and no
\* message written afterwards, so that no stream is given this last prompt
C37_LastContinuationIsNeverSent ==
    /\ [][pc = "yield_complete" /\ pc' # pc
            => messages' = Append(messages, Continuation)]_vars
    /\ [](exit = "exhausted" => /\ pc = "done"
                                /\ EndsWithRound(messages)
                                /\ streamsOpened = max_rounds)
    /\ [][exit # "exhausted" /\ exit' = "exhausted"
            => /\ round_num = max_rounds - 1
               /\ messages' = Append(messages, Continuation)
               /\ streamsOpened' = streamsOpened
               /\ stream' = stream]_vars
    /\ [][exit = "exhausted" => UNCHANGED <<messages, streamsOpened, stream, pc>>]_vars

C37_Witness ==
    /\ exit = "exhausted"
    /\ pc = "done"
    /\ round_num = max_rounds - 1
    /\ Last(messages) = Continuation
    /\ messages[Len(messages) - 1].role = "tool"
    /\ streamsOpened = max_rounds

(***************************************************************************)
(* Properties of the life of a session record                              *)
(***************************************************************************)
\* the registry holds a record of this id that is inactive or out of time
Gone(ss, id, t) == Position(ss, id) # 0 /\ Expired(RecordOf(ss, id), t)

\* C38: a record that is inactive or out of time stays so: get_session,
\* update_session and set_session_metadata return nothing for it and leave
\* its messages, its metadata and its time of access as they were; it leaves
\* the registry, or create_session of its id puts a new record in its place,
\* with no message and no metadata
C38_RecordNeverRevives ==
    [][\A id \in SessionIds :
          Gone(sessions, id, now) =>
              IF Position(sessions', id) = 0
              THEN last'.op \in {"delete", "cleanup", "create"}
              ELSE IF Created(id)
              THEN RecordOf(sessions', id) = Session(id, now)
              ELSE /\ Gone(sessions', id, now')
                   /\ RecordOf(sessions', id).messages = RecordOf(sessions, id).messages
                   /\ RecordOf(sessions', id).metadata = RecordOf(sessions, id).metadata
                   /\ RecordOf(sessions', id).last_accessed
                         = RecordOf(sessions, id).last_accessed
                   /\ (last'.op \in Accesses /\ last'.id = id)
                         => last'.result = IF last'.op = "get" THEN None ELSE "False"]_storeVars

\* get_session returned nothing for a session that was evicted while in
\* time and that holds a message
C38_Witness ==
    /\ last.op = "get"
    /\ last.result = None
    /\ Gone(sessions, last.id, now)
    /\ ~RecordOf(sessions, last.id).active
    /\ ~Stale(RecordOf(sessions, last.id), now)
    /\ RecordOf(sessions, last.id).messages # <<>>

\* C39: the cleanup of _ensure_session_capacity deletes no live session, so
\* that the count after it is the count before it; a create_session that
\* makes a new session while max_active sessions or more are live marks one
\* of them inactive, keeps its record, and leaves the others live
C39_CleanupFreesNoRoom ==
    /\ [](LET cleaned == cleanup_sessions(sessions, now) IN
          /\ Cardinality(active_sessions(cleaned, now))
                = Cardinality(active_sessions(sessions, now))
          /\ LiveIds(cleaned, now) = LiveIds(sessions, now))
    /\ [][\A id \in SessionIds :
            (/\ Created(id)
             /\ makes_new(sessions, id, now)
             /\ Cardinality(LiveIds(sessions, now)) >= max_active)
                => \E victim \in LiveIds(sessions, now) :
                      /\ victim \in Ids(sessions')
                      /\ ~RecordOf(sessions', victim).active
                      /\ LiveIds(sessions', now)
                            = (LiveIds(sessions, now) \ {victim}) \cup {id}]_storeVars

\* after the time of expiry of the first sessions, create_session has made
\* a session at capacity: the record it evicted is there, inactive and in
\* time, and no record out of time is left
C39_Witness ==
    /\ last.op = "create"
    /\ now > timeout
    /\ RecordOf(sessions, last.id) = Session(last.id, now)
    /\ Cardinality(LiveIds(sessions, now)) = max_active
    /\ Len(sessions) = max_active + 1
    /\ \E i \in DOMAIN sessions : ~sessions[i].active /\ ~Stale(sessions[i], now)

====
